---- MODULE Spec2Model ----
(***************************************************************************)
(* A model of the criware-utf table codec: the table Writer and Reader,    *)
(* the primitive value encodings, the packet envelope with its XOR mask    *)
(* cipher, and the Table::read / Table::write procedures that the          *)
(* utf_table macro generates.                                              *)
(*                                                                         *)
(* Byte buffers are sequences over 0..255.  Strings are the sequences of   *)
(* their UTF-8 bytes.  Numbers are integers; a value of a 32 or 64 bit     *)
(* kind is kept below 2^31 in magnitude by the input sets.  An f32 is      *)
(* represented by its IEEE-754 bit pattern.  usize is 64 bits wide.        *)
(***************************************************************************)
EXTENDS Integers, Sequences, FiniteSets, TLC

VARIABLES
    pc,        \* position of the modelled caller
    writer,    \* the Writer's fields (writer.rs:49-56)
    calls,     \* the column declarations pushed so far, in order
    rowvals,   \* the row values written so far, in order
    stream,    \* the bytes in the sink / source stream
    reader,    \* the Reader's fields and cursors (reader.rs:31-40)
    result,    \* what the last operation returned
    reads,     \* what the typed reads returned, in order
    aux        \* inputs and outputs of the cipher, packet and table layers

vars == <<pc, writer, calls, rowvals, stream, reader, result, reads, aux>>

(***************************************************************************)
(* Bounds of the model.                                                    *)
(***************************************************************************)
MaxOps == 2

(***************************************************************************)
(* Bytes and integers.                                                     *)
(***************************************************************************)
Byte == 0..255

Min(a, b) == IF a < b THEN a ELSE b

SubSeqFrom(s, from) == SubSeq(s, from + 1, Len(s))

\* s[a .. b) with 0-based offsets, as a Rust slice
Slice(s, a, b) == SubSeq(s, a + 1, b)

Zeroes(n) == [i \in 1..n |-> 0]

\* uN::to_be_bytes / iN::to_be_bytes: w bytes, most significant first.  The
\* floor division makes the bytes of a negative number its two's complement.
RECURSIVE to_be_bytes(_, _)
to_be_bytes(v, w) ==
    IF w = 0 THEN <<>> ELSE Append(to_be_bytes(v \div 256, w - 1), v % 256)

\* uN::to_le_bytes
RECURSIVE to_le_bytes(_, _)
to_le_bytes(v, w) ==
    IF w = 0 THEN <<>> ELSE <<v % 256>> \o to_le_bytes(v \div 256, w - 1)

\* uN::from_be_bytes, for a value below 2^31
RECURSIVE from_be_bytes(_)
from_be_bytes(b) ==
    IF b = <<>> THEN 0
    ELSE from_be_bytes(SubSeq(b, 1, Len(b) - 1)) * 256 + b[Len(b)]

\* uN::from_le_bytes, for a value below 2^31
RECURSIVE from_le_bytes(_)
from_le_bytes(b) ==
    IF b = <<>> THEN 0 ELSE b[1] + 256 * from_le_bytes(Tail(b))

\* iN::from_be_bytes: two's complement
from_be_bytes_signed(b) ==
    IF b # <<>> /\ b[1] >= 128
    THEN -1 - from_be_bytes([i \in 1..Len(b) |-> 255 - b[i]])
    ELSE from_be_bytes(b)

(***************************************************************************)
(* Value kinds (value.rs:7-19) and their primitives (value.rs:45-139).     *)
(***************************************************************************)
ValueKind == {"U8", "I8", "U16", "I16", "U32", "I32", "U64", "I64", "F32", "STR", "BLOB"}

\* the value types that are not named by the kind of their primitive
ArrayType == "[u8; 2]"
CallerType == "Ascii"

\* the value types: the primitives, an array and the caller's type
ValueTypes == ValueKind \cup {ArrayType, CallerType}

\* Value::Primitive: the kind of the primitive of a value type
PrimitiveOf(T) ==
    CASE T = ArrayType  -> "BLOB"
      [] T = CallerType -> "U8"
      [] OTHER          -> T

\* Primitive::TYPE_FLAG
TYPE_FLAG(kind) ==
    CASE kind = "U8" -> 0 [] kind = "I8" -> 1 [] kind = "U16" -> 2
      [] kind = "I16" -> 3 [] kind = "U32" -> 4 [] kind = "I32" -> 5
      [] kind = "U64" -> 6 [] kind = "I64" -> 7 [] kind = "F32" -> 8
      [] kind = "STR" -> 10 [] kind = "BLOB" -> 11

\* a width table that gives a string 8 bytes
SIZE_IN_UTF_wide_str(kind) ==
    CASE kind \in {"U8", "I8"} -> 1
      [] kind \in {"U16", "I16"} -> 2
      [] kind \in {"U32", "I32", "F32"} -> 4
      [] kind \in {"U64", "I64", "BLOB", "STR"} -> 8

\* Primitive::SIZE_IN_UTF: the size of the Buffer of the primitive
SIZE_IN_UTF(kind) ==
    CASE kind \in {"U8", "I8"} -> 1
      [] kind \in {"U16", "I16"} -> 2
      [] kind \in {"U32", "I32", "F32", "STR"} -> 4
      [] kind \in {"U64", "I64", "BLOB"} -> 8

\* utf_size_of::<T>(): the width of the primitive of the value type
utf_size_of(kind) == SIZE_IN_UTF(PrimitiveOf(kind))

Signed(kind) == kind \in {"I8", "I16", "I32", "I64"}

\* std::any::type_name of the primitive
type_name(kind) ==
    CASE kind = "U8" -> "u8" [] kind = "I8" -> "i8" [] kind = "U16" -> "u16"
      [] kind = "I16" -> "i16" [] kind = "U32" -> "u32" [] kind = "I32" -> "i32"
      [] kind = "U64" -> "u64" [] kind = "I64" -> "i64" [] kind = "F32" -> "f32"
      [] kind = "STR" -> "str" [] kind = "BLOB" -> "[u8]"

(***************************************************************************)
(* Results.                                                                *)
(***************************************************************************)
Ok(v) == [ok |-> TRUE, val |-> v]
Err(e) == [ok |-> FALSE, err |-> e]
NoResult == [ok |-> TRUE, val |-> "none"]

(***************************************************************************)
(* Typed values.  A value type (an implementor of Value) is named by a     *)
(* string: the built-in number types, String and Vec<u8> by the ValueKind  *)
(* of their primitive, the byte array [u8; 2] of value.rs, and "Ascii", a  *)
(* type of the caller with u8 as its primitive whose conversions refuse    *)
(* the bytes from 128 on.  A value is [kind, val]: kind is its value type, *)
(* val what it holds, written as the primitive it converts to.             *)
(***************************************************************************)
TV(kind, val) == [kind |-> kind, val |-> val]

\* std::any::type_name of the value type
value_type_name(T) ==
    CASE T = "STR"      -> "alloc::string::String"
      [] T = "BLOB"     -> "alloc::vec::Vec<u8>"
      [] T = ArrayType  -> "[u8; 2]"
      [] T = CallerType -> "Ascii"
      [] OTHER          -> type_name(T)

\* Value::to_primitive: the identity for the built-in value types and the
\* byte array; the caller's type refuses a value from 128 on
to_primitive(tv) ==
    IF tv.kind = CallerType /\ tv.val >= 128 THEN Err("conversion") ELSE Ok(tv.val)

\* Value::from_primitive: the identity for the built-in value types; the
\* byte array takes a blob of its own length only (BlobWrongSize), the
\* caller's type refuses a byte from 128 on
from_primitive(kind, prim) ==
    IF kind = ArrayType /\ Len(prim) # 2 THEN Err("wrong size")
    ELSE IF kind = CallerType /\ prim >= 128 THEN Err("conversion")
    ELSE Ok(TV(kind, prim))

(***************************************************************************)
(* Writer (writer.rs).                                                     *)
(***************************************************************************)
NULL_STR == <<60, 78, 85, 76, 76, 62>>     \* "<NULL>"

\* HashMap::insert: the new entry replaces an entry of the same key
MapInsert(m, k, v) == (k :> v) @@ m

\* Writer::new
WriterNew(table_name) ==
    [ column_data |-> <<>>,
      row_data    |-> <<>>,
      strings     |-> MapInsert(MapInsert(<<>>, NULL_STR, 0), table_name, 7),
      string_data |-> NULL_STR \o <<0>> \o table_name \o <<0>>,
      blobs       |-> <<>>,
      field_count |-> 0 ]

\* a write that appends every string, written before or not
str_write_append(value, w) ==
    LET position == Len(w.string_data) IN
    [ buf |-> to_be_bytes(position, 4),
      w   |-> [w EXCEPT !.string_data = w.string_data \o value \o <<0>>,
                        !.strings = MapInsert(w.strings, value, position)] ]

\* impl Primitive for str: write.  Returns the 4-byte buffer and the pools.
str_write(value, w) ==
    IF value \in DOMAIN w.strings
    THEN [buf |-> to_be_bytes(w.strings[value], 4), w |-> w]
    ELSE LET position == Len(w.string_data) IN
         [ buf |-> to_be_bytes(position, 4),
           w   |-> [w EXCEPT !.string_data = w.string_data \o value \o <<0>>,
                             !.strings = MapInsert(w.strings, value, position)] ]

\* a writer that stores a blob reference with the length in the high half
blob_write_length_first(value, w) ==
    [ buf |-> to_be_bytes(Len(value), 4) \o to_be_bytes(Len(w.blobs), 4),
      w   |-> [w EXCEPT !.blobs = w.blobs \o value] ]

\* impl Primitive for [u8]: write.  offset (high 32 bits) and length (low).
blob_write(value, w) ==
    [ buf |-> to_be_bytes(Len(w.blobs), 4) \o to_be_bytes(Len(value), 4),
      w   |-> [w EXCEPT !.blobs = w.blobs \o value] ]

\* impl_primitive_number: write
number_write(kind, value, w) ==
    [buf |-> to_be_bytes(value, SIZE_IN_UTF(kind)), w |-> w]

Primitive_write(kind, value, w) ==
    CASE kind = "STR"  -> str_write(value, w)
      [] kind = "BLOB" -> blob_write(value, w)
      [] OTHER         -> number_write(kind, value, w)

\* Writer::write_primitive
write_primitive(w, rowed, kind, value) ==
    LET extend(r) ==
            IF rowed
            THEN [r.w EXCEPT !.row_data = r.w.row_data \o r.buf]
            ELSE [r.w EXCEPT !.column_data = r.w.column_data \o r.buf]
    IN  extend(Primitive_write(kind, value, w))

\* Writer::write_value: [ok, w]
write_value(w, rowed, tv) ==
    LET converted(p) ==
            IF p.ok
            THEN [ok |-> TRUE, w |-> write_primitive(w, rowed, PrimitiveOf(tv.kind), p.val)]
            ELSE [ ok |-> FALSE, w |-> w,
                   err |-> <<"ValueConversion", value_type_name(tv.kind),
                             type_name(PrimitiveOf(tv.kind)), p.err>> ]
    IN  converted(to_primitive(tv))

\* self.field_count += 1 on the u16 counter: [ok, w, (err)].  At 65535 the
\* addition panics in a build with overflow checks and wraps to 0 in one
\* without.
count_field(w, overflow_checks) ==
    IF w.field_count + 1 < 65536
    THEN [ok |-> TRUE, w |-> [w EXCEPT !.field_count = @ + 1]]
    ELSE IF overflow_checks
    THEN [ok |-> FALSE, w |-> w, err |-> <<"panic", "attempt to add with overflow">>]
    ELSE [ok |-> TRUE, w |-> [w EXCEPT !.field_count = 0]]

\* Writer::push_constant_column_private: [ok, w, (err)]; kind is the value
\* type, value is <<tv>> (Some) or <<>> (None)
push_constant_column_private(w, name, kind, value, overflow_checks) ==
    LET flag == IF value # <<>> THEN 48 ELSE 16
        counted(r) == IF r.ok THEN count_field(r.w, overflow_checks) ELSE r
        valued(w2) ==
            counted(IF value # <<>>
                    THEN write_value(w2, FALSE, value[1])
                    ELSE [ok |-> TRUE, w |-> w2])
        named(w1) == valued(write_primitive(w1, FALSE, "STR", name))
    IN  named(write_primitive(w, FALSE, "U8", flag + TYPE_FLAG(PrimitiveOf(kind))))

\* Writer::push_rowed_column_private: [ok, w, (err)]; kind is the
\* ValueKind of the primitive
push_rowed_column_private(w, name, included, kind, overflow_checks) ==
    LET storage_flag == IF included THEN 80 ELSE 16
        named(w1) == count_field(write_primitive(w1, FALSE, "STR", name), overflow_checks)
    IN  named(write_primitive(w, FALSE, "U8", storage_flag + TYPE_FLAG(kind)))

\* Writer::end, lines 103-110: the offsets of the header
EndRowOffset(w) == Len(w.column_data) + 24
EndStringOffset(w) == EndRowOffset(w) + Len(w.row_data)
EndBlobOffsetRemainder(w) == 8 - ((EndStringOffset(w) + Len(w.string_data)) % 8)
EndBlobOffset(w) ==
    EndStringOffset(w) + Len(w.string_data) + EndBlobOffsetRemainder(w)
\* a table size that counts the primary header as well
EndTableSize_whole(w) == EndBlobOffset(w) + Len(w.blobs) + 8

EndTableSize(w) == EndBlobOffset(w) + Len(w.blobs)

\* Writer::end: [ok, out]; out is what was written to the sink
EndBytes(w, row_size, row_count) ==
    <<64, 85, 84, 70>>
    \o to_be_bytes(EndTableSize(w), 4)
    \o to_be_bytes(EndRowOffset(w), 4)
    \o to_be_bytes(EndStringOffset(w), 4)
    \o to_be_bytes(EndBlobOffset(w), 4)
    \o to_be_bytes(7, 4)
    \o to_be_bytes(w.field_count, 2)
    \o to_be_bytes(row_size, 2)
    \o to_be_bytes(row_count, 4)
    \o w.column_data
    \o w.row_data
    \o w.string_data
    \o Zeroes(EndBlobOffsetRemainder(w))
    \o w.blobs

\* an end that only rejects a row buffer shorter than declared
Writer_end_short_only(w, row_size, row_count) ==
    IF Len(w.row_data) < row_size * row_count
    THEN [ok |-> FALSE, err |-> <<"MalformedHeader">>, out |-> <<>>]
    ELSE [ok |-> TRUE, out |-> EndBytes(w, row_size, row_count)]

\* Writer::end: the bytes handed to the sink, or the error
Writer_end(w, row_size, row_count) ==
    IF Len(w.row_data) # row_size * row_count
    THEN [ok |-> FALSE, err |-> <<"MalformedHeader">>, out |-> <<>>]
    ELSE [ok |-> TRUE, out |-> EndBytes(w, row_size, row_count)]

(***************************************************************************)
(* Reader (reader.rs).                                                     *)
(***************************************************************************)
\* a test that takes every nibble up to 0xB for a value kind
is_valid_value_flag_to_b(half) == half <= 11

\* is_valid_value_flag
is_valid_value_flag(half) == half <= 8 \/ half = 10 \/ half = 11

\* a test that takes every high nibble up to 0x5 for a storage form
is_valid_storage_flag_to_5(half) == half <= 80

\* is_valid_storage_flag
is_valid_storage_flag(half) == half = 16 \/ half = 48 \/ half = 80

\* IOErrorHelper::io: an UnexpectedEof of the source stream becomes
\* Error::EOF naming what was being read
io(what) == Err(<<"EOF", what>>)

\* std::str::from_utf8(..).is_ok()
RECURSIVE Utf8Valid(_)
Utf8Valid(b) ==
    LET n == Len(b)
        cont(i) == i <= n /\ b[i] >= 128 /\ b[i] <= 191
        in(i, lo, hi) == i <= n /\ b[i] >= lo /\ b[i] <= hi
    IN  IF n = 0 THEN TRUE
        ELSE IF b[1] <= 127 THEN Utf8Valid(SubSeqFrom(b, 1))
        ELSE IF b[1] >= 194 /\ b[1] <= 223
             THEN cont(2) /\ Utf8Valid(SubSeqFrom(b, 2))
        ELSE IF b[1] >= 224 /\ b[1] <= 239
             THEN /\ IF b[1] = 224 THEN in(2, 160, 191)
                     ELSE IF b[1] = 237 THEN in(2, 128, 159)
                     ELSE cont(2)
                  /\ cont(3)
                  /\ Utf8Valid(SubSeqFrom(b, 3))
        ELSE IF b[1] >= 240 /\ b[1] <= 244
             THEN /\ IF b[1] = 240 THEN in(2, 144, 191)
                     ELSE IF b[1] = 244 THEN in(2, 128, 143)
                     ELSE cont(2)
                  /\ cont(3) /\ cont(4)
                  /\ Utf8Valid(SubSeqFrom(b, 4))
        ELSE FALSE

\* a scan that also takes the bytes after the last NUL for a string
RECURSIVE scan_strings_with_tail(_, _, _, _)
scan_strings_with_tail(buffer, start, index, strings) ==
    IF index >= Len(buffer)
    THEN Ok(IF start < Len(buffer)
            THEN MapInsert(strings, start, Slice(buffer, start, Len(buffer)))
            ELSE strings)
    ELSE IF buffer[index + 1] = 0
    THEN IF Utf8Valid(Slice(buffer, start, index))
         THEN scan_strings_with_tail(buffer, index + 1, index + 1,
                                     MapInsert(strings, start, Slice(buffer, start, index)))
         ELSE Err(<<"StringMalformed">>)
    ELSE scan_strings_with_tail(buffer, start, index + 1, strings)

\* Reader::new, lines 100-113: the scan of the string pool.  Ok(strings), or
\* the error of the first string that is not UTF-8.
RECURSIVE scan_strings(_, _, _, _)
scan_strings(buffer, start, index, strings) ==
    IF index >= Len(buffer) THEN Ok(strings)
    ELSE IF buffer[index + 1] = 0
    THEN IF Utf8Valid(Slice(buffer, start, index))
         THEN scan_strings(buffer, index + 1, index + 1,
                           MapInsert(strings, start, Slice(buffer, start, index)))
         ELSE Err(<<"StringMalformed">>)
    ELSE scan_strings(buffer, start, index + 1, strings)

\* row_size as u32 * row_count, for row_size < 2^16 and row_count < 2^31:
\* the product as [hi, lo], its value being hi * 2^16 + lo with lo < 2^16.
\* It exceeds u32 iff hi >= 2^16.
MulWide(row_size, row_count) ==
    LET ah == row_size \div 256
        al == row_size % 256
        bh == row_count \div 65536
        bl == row_count % 65536
        t  == ((ah * bl) % 256) * 256 + al * bl
    IN  [ hi |-> row_size * bh + ((ah * bl) \div 256) + (t \div 65536),
          lo |-> t % 65536 ]

MulOverflows(row_size, row_count) == MulWide(row_size, row_count).hi >= 65536

\* the product wrapped to 32 bits equals d (0 <= d < 2^31)
WrappedMulEquals(row_size, row_count, d) ==
    /\ MulWide(row_size, row_count).hi % 65536 = d \div 65536
    /\ MulWide(row_size, row_count).lo = d % 65536

NoReader == [none |-> TRUE]

\* Reader::new, lines 77-84: the header test
HeaderMalformed(table_size, row_offset, string_offset, blob_offset, row_size, row_count) ==
    \/ 24 > row_offset
    \/ row_offset > string_offset
    \/ string_offset > blob_offset
    \/ blob_offset > table_size
    \/ ~WrappedMulEquals(row_size, row_count, string_offset - row_offset)

\* a table size that counts the 8 bytes of the primary header as well
table_end_with_header(table_size) == table_size

\* where the table ends in the stream: table_size counts the bytes after
\* the 8 bytes of the primary header
table_end(table_size) == 8 + table_size

\* Reader::new on the bytes src of the source stream.  overflow_checks is the
\* build's overflow-checks setting (on in a debug build, off in a release
\* build).  [res, r, consumed]: consumed is the number of bytes taken from
\* the stream (on a failed read_exact, the bytes the stream had left).
Reader_new(src, overflow_checks) ==
    LET n == Len(src)
        fail(e, c) == [res |-> e, r |-> NoReader, consumed |-> c]
        table_size    == from_be_bytes(Slice(src, 4, 8))
        row_offset    == from_be_bytes(Slice(src, 8, 12))
        string_offset == from_be_bytes(Slice(src, 12, 16))
        blob_offset   == from_be_bytes(Slice(src, 16, 20))
        table_name    == from_be_bytes(Slice(src, 20, 24))
        field_count   == from_be_bytes(Slice(src, 24, 26))
        row_size      == from_be_bytes(Slice(src, 26, 28))
        row_count     == from_be_bytes(Slice(src, 28, 32))
        pooled(strings) ==
            IF ~strings.ok THEN fail(strings, 8 + blob_offset)
            ELSE IF table_name \notin DOMAIN strings.val
                 THEN fail(Err(<<"MalformedHeader">>), 8 + blob_offset)
            ELSE IF n < table_end(table_size) THEN fail(io("UTF blob data"), n)
            ELSE [ res |-> Ok("Reader"),
                   r   |-> [ column_buffer |-> Slice(src, 32, 8 + row_offset),
                             column_pos    |-> 0,
                             row_buffer    |-> Slice(src, 8 + row_offset,
                                                     8 + string_offset),
                             row_pos       |-> 0,
                             strings       |-> strings.val,
                             blobs         |-> Slice(src, 8 + blob_offset, table_end(table_size)),
                             table_name_index |-> table_name,
                             field_count   |-> field_count ],
                   consumed |-> table_end(table_size) ]
    IN  IF n < 8 THEN fail(io("@UTF header"), n)
        ELSE IF Slice(src, 0, 4) # <<64, 85, 84, 70>>
             THEN fail(Err(<<"MalformedHeader">>), 8)
        ELSE IF table_size < 24 THEN fail(Err(<<"EOF", "@UTF header">>), 8)
        ELSE IF n < 32 THEN fail(io("@UTF header"), n)
        ELSE IF /\ 24 <= row_offset /\ row_offset <= string_offset
                /\ string_offset <= blob_offset /\ blob_offset <= table_size
                /\ overflow_checks /\ MulOverflows(row_size, row_count)
             THEN fail(Err(<<"panic", "attempt to multiply with overflow">>), 32)
        ELSE IF HeaderMalformed(table_size, row_offset, string_offset,
                                blob_offset, row_size, row_count)
             THEN fail(Err(<<"MalformedHeader">>), 32)
        ELSE IF n < 8 + row_offset THEN fail(io("UTF column data"), n)
        ELSE IF n < 8 + string_offset THEN fail(io("UTF row data"), n)
        ELSE IF n < 8 + blob_offset THEN fail(io("UTF string data"), n)
        ELSE pooled(scan_strings(Slice(src, 8 + string_offset, 8 + blob_offset),
                                 0, 0, <<>>))

\* Reader::field_count
field_count(r) == r.field_count

\* Reader::table_name
table_name(r) == r.strings[r.table_name_index]

\* Reader::more_column_data
more_column_data(r) == r.column_pos < Len(r.column_buffer)

\* Reader::more_row_data
more_row_data(r) == r.row_pos < Len(r.row_buffer)

\* impl Primitive for str: parse.  <<v>> is Some(v), <<>> is None.
str_parse(data, strings) ==
    IF from_be_bytes(data) \in DOMAIN strings
    THEN <<strings[from_be_bytes(data)]>>
    ELSE <<>>

\* a parse that also refuses a blob ending at the end of the pool
blob_parse_strict(data, blobs) ==
    LET idx == from_be_bytes(Slice(data, 0, 4))
        len == from_be_bytes(Slice(data, 4, 8))
        end == idx + len
    IN  IF end >= Len(blobs) THEN <<>> ELSE <<Slice(blobs, idx, end)>>

\* impl Primitive for [u8]: parse
blob_parse(data, blobs) ==
    LET idx == from_be_bytes(Slice(data, 0, 4))
        len == from_be_bytes(Slice(data, 4, 8))
        end == idx + len
    IN  IF end > Len(blobs) THEN <<>> ELSE <<Slice(blobs, idx, end)>>

\* impl_primitive_number: parse
number_parse(kind, data) ==
    <<IF Signed(kind) THEN from_be_bytes_signed(data) ELSE from_be_bytes(data)>>

Primitive_parse(kind, data, strings, blobs) ==
    CASE kind = "STR"  -> str_parse(data, strings)
      [] kind = "BLOB" -> blob_parse(data, blobs)
      [] OTHER         -> number_parse(kind, data)

\* a read that reports a short buffer as missing data
read_primitive_short_not_found(r, row, kind) ==
    LET buf  == IF row THEN r.row_buffer ELSE r.column_buffer
        pos  == IF row THEN r.row_pos ELSE r.column_pos
        size == SIZE_IN_UTF(kind)
        move(to) == IF row THEN [r EXCEPT !.row_pos = to]
                    ELSE [r EXCEPT !.column_pos = to]
        parsed(prim) ==
            [ res |-> IF prim # <<>> THEN Ok(prim[1]) ELSE Err(<<"DataNotFound">>),
              r   |-> move(pos + size) ]
    IN  IF Len(buf) - pos < size
        THEN [res |-> Err(<<"DataNotFound">>), r |-> move(Len(buf))]
        ELSE parsed(Primitive_parse(kind, Slice(buf, pos, pos + size),
                                    r.strings, r.blobs))

\* Reader::read_primitive: [res, r].  Cursor::read_exact leaves the cursor at
\* the end of its buffer when fewer bytes remain than were asked for.
read_primitive(r, row, kind) ==
    LET buf  == IF row THEN r.row_buffer ELSE r.column_buffer
        pos  == IF row THEN r.row_pos ELSE r.column_pos
        size == SIZE_IN_UTF(kind)
        move(to) == IF row THEN [r EXCEPT !.row_pos = to]
                    ELSE [r EXCEPT !.column_pos = to]
        parsed(prim) ==
            [ res |-> IF prim # <<>> THEN Ok(prim[1]) ELSE Err(<<"DataNotFound">>),
              r   |-> move(pos + size) ]
    IN  IF Len(buf) - pos < size
        THEN [ res |-> Err(<<"EOF", "reading " \o type_name(kind) \o " value">>),
               r   |-> move(Len(buf)) ]
        ELSE parsed(Primitive_parse(kind, Slice(buf, pos, pos + size),
                                    r.strings, r.blobs))

\* Reader::read_value::<T>; kind is the value type T
read_value(r, row, kind) ==
    LET converted(p, v) ==
            [ res |-> IF v.ok THEN v
                      ELSE Err(<<"ValueConversion", type_name(PrimitiveOf(kind)),
                                 value_type_name(kind), v.err>>),
              r   |-> p.r ]
        read(p) == IF ~p.res.ok THEN p ELSE converted(p, from_primitive(kind, p.res.val))
    IN  read(read_primitive(r, row, PrimitiveOf(kind)))

\* handle_type_flag!: <<>> when the flag is the expected one, else <<error>>
handle_type_flag(type_flag, expected) ==
    IF type_flag # TYPE_FLAG(expected)
    THEN IF is_valid_value_flag(type_flag)
         THEN <<Err(<<"WrongColumnType", type_flag, TYPE_FLAG(expected)>>)>>
         ELSE <<Err(<<"InvalidColumnType", type_flag>>)>>
    ELSE <<>>

\* Reader::read_constant_column_private: [res, r]; the value is
\* <<tv>> (Some) or <<>> (None)
read_constant_column_private(r, name, kind, optional) ==
    LET some(v) == [res |-> IF v.res.ok THEN Ok(<<v.res.val>>) ELSE v.res, r |-> v.r]
        column(rd, flag, column_name, wrong_type) ==
            LET storage_flag == flag - (flag % 16) IN
            IF column_name # name
            THEN [res |-> Err(<<"WrongColumnName", column_name, name>>), r |-> rd]
            ELSE IF wrong_type # <<>>
            THEN [res |-> wrong_type[1], r |-> rd]
            ELSE IF storage_flag = 48
            THEN some(read_value(rd, FALSE, kind))
            ELSE IF optional /\ storage_flag = 16
            THEN [res |-> Ok(<<>>), r |-> rd]
            ELSE IF is_valid_storage_flag(storage_flag)
            THEN [res |-> Err(<<"WrongColumnStorage", storage_flag, "0x30">>), r |-> rd]
            ELSE [res |-> Err(<<"InvalidColumnStorage", storage_flag>>), r |-> rd]
        named(f, c) ==
            IF ~c.res.ok THEN c
            ELSE column(c.r, f.res.val, c.res.val, handle_type_flag(f.res.val % 16,
                        PrimitiveOf(kind)))
        flagged(f) == IF ~f.res.ok THEN f ELSE named(f, read_primitive(f.r, FALSE, "STR"))
    IN  flagged(read_primitive(r, FALSE, "U8"))

\* Reader::read_constant_column
read_constant_column(r, name, kind) ==
    LET unwrap(p) == IF p.res.ok THEN [res |-> Ok(p.res.val[1]), r |-> p.r] ELSE p IN
    unwrap(read_constant_column_private(r, name, kind, FALSE))

\* Reader::read_constant_column_opt
read_constant_column_opt(r, name, kind) ==
    read_constant_column_private(r, name, kind, TRUE)

\* a rowed column read that looks at the type flag before the name
read_rowed_column_private_type_first(r, name, kind, optional) ==
    LET column(rd, flag, column_name, wrong_type) ==
            LET storage_flag == flag - (flag % 16) IN
            IF wrong_type # <<>>
            THEN [res |-> wrong_type[1], r |-> rd]
            ELSE IF column_name # name
            THEN [res |-> Err(<<"WrongColumnName", column_name, name>>), r |-> rd]
            ELSE IF storage_flag = 80
            THEN [res |-> Ok(TRUE), r |-> rd]
            ELSE IF optional /\ storage_flag = 16
            THEN [res |-> Ok(FALSE), r |-> rd]
            ELSE IF is_valid_storage_flag(storage_flag)
            THEN [res |-> Err(<<"WrongColumnStorage", storage_flag, "0x50">>), r |-> rd]
            ELSE [res |-> Err(<<"InvalidColumnStorage", storage_flag>>), r |-> rd]
        named(f, c) ==
            IF ~c.res.ok THEN c
            ELSE column(c.r, f.res.val, c.res.val, handle_type_flag(f.res.val % 16, kind))
        flagged(f) == IF ~f.res.ok THEN f ELSE named(f, read_primitive(f.r, FALSE, "STR"))
    IN  flagged(read_primitive(r, FALSE, "U8"))

\* a rowed column read that puts the column cursor back when it fails
read_rowed_column_private_rewinding(r, name, kind, optional) ==
    LET rewound(p) == IF p.res.ok THEN p ELSE [res |-> p.res, r |-> r] IN
    rewound(read_rowed_column_private_type_first(r, name, kind, optional))

\* Reader::read_rowed_column_private: [res, r]; the value is a boolean
read_rowed_column_private(r, name, kind, optional) ==
    LET column(rd, flag, column_name, wrong_type) ==
            LET storage_flag == flag - (flag % 16) IN
            IF column_name # name
            THEN [res |-> Err(<<"WrongColumnName", column_name, name>>), r |-> rd]
            ELSE IF wrong_type # <<>>
            THEN [res |-> wrong_type[1], r |-> rd]
            ELSE IF storage_flag = 80
            THEN [res |-> Ok(TRUE), r |-> rd]
            ELSE IF optional /\ storage_flag = 16
            THEN [res |-> Ok(FALSE), r |-> rd]
            ELSE IF is_valid_storage_flag(storage_flag)
            THEN [res |-> Err(<<"WrongColumnStorage", storage_flag, "0x50">>), r |-> rd]
            ELSE [res |-> Err(<<"InvalidColumnStorage", storage_flag>>), r |-> rd]
        named(f, c) ==
            IF ~c.res.ok THEN c
            ELSE column(c.r, f.res.val, c.res.val, handle_type_flag(f.res.val % 16, kind))
        flagged(f) == IF ~f.res.ok THEN f ELSE named(f, read_primitive(f.r, FALSE, "STR"))
    IN  flagged(read_primitive(r, FALSE, "U8"))

\* Reader::read_rowed_column
read_rowed_column(r, name, kind) ==
    LET unit(p) == IF p.res.ok THEN [res |-> Ok("unit"), r |-> p.r] ELSE p IN
    unit(read_rowed_column_private(r, name, PrimitiveOf(kind), FALSE))

\* Reader::read_rowed_column_opt
read_rowed_column_opt(r, name, kind) ==
    read_rowed_column_private(r, name, PrimitiveOf(kind), TRUE)

(***************************************************************************)
(* Schema (schema.rs).                                                     *)
(***************************************************************************)
\* struct SchemaColumn
SchemaColumn(name, storage_format, value_kind) ==
    [name |-> name, storage_format |-> storage_format, value_kind |-> value_kind]

\* get_column: match flag & 0x0f.  <<kind>>, or <<>> for the error arm.
value_kind(half) ==
    CASE half = 0 -> <<"U8">> [] half = 1 -> <<"I8">> [] half = 2 -> <<"U16">>
      [] half = 3 -> <<"I16">> [] half = 4 -> <<"U32">> [] half = 5 -> <<"I32">>
      [] half = 6 -> <<"U64">> [] half = 7 -> <<"I64">> [] half = 8 -> <<"F32">>
      [] half = 10 -> <<"STR">> [] half = 11 -> <<"BLOB">>
      [] OTHER -> <<>>

\* get_column: the unsigned integer read in place of a constant of a kind
discarded_kind(kind) ==
    CASE kind \in {"U8", "I8"} -> "U8"
      [] kind \in {"U16", "I16"} -> "U16"
      [] kind \in {"U32", "I32", "F32", "STR"} -> "U32"
      [] kind \in {"U64", "I64", "BLOB"} -> "U64"

\* self.read_value::<uN>(false)?; as a statement: the error of the read, or
\* the reader past the value.  Parsing an unsigned integer succeeds on any
\* bytes and the value is dropped, so only the cursor is kept.
discard_value(r, kind) ==
    IF Len(r.column_buffer) - r.column_pos < SIZE_IN_UTF(kind)
    THEN read_value(r, FALSE, kind)
    ELSE [ res |-> Ok("unit"),
           r   |-> [r EXCEPT !.column_pos = @ + SIZE_IN_UTF(kind)] ]

\* a get_column that leaves the constant of a Constant column in the buffer
get_column_keeps_constant(r) ==
    LET stored(flag, name, kind, r2) ==
            CASE (flag \div 16) * 16 = 16 -> [res |-> Ok(SchemaColumn(name, "Zero", kind)), r |-> r2]
              [] (flag \div 16) * 16 = 48 -> [res |-> Ok(SchemaColumn(name, "Constant", kind)), r |-> r2]
              [] (flag \div 16) * 16 = 80 -> [res |-> Ok(SchemaColumn(name, "Rowed", kind)), r |-> r2]
              [] OTHER -> [res |-> Err(<<"InvalidColumnStorage", (flag \div 16) * 16>>), r |-> r2]
        kinded(flag, name, kind, r2) ==
            IF kind = <<>>
            THEN [res |-> Err(<<"InvalidColumnType", flag % 16>>), r |-> r2]
            ELSE stored(flag, name, kind[1], r2)
        named(flag, p) ==
            IF ~p.res.ok THEN p
            ELSE kinded(flag, p.res.val.val, value_kind(flag % 16), p.r)
        flagged(p) ==
            IF ~p.res.ok THEN p ELSE named(p.res.val.val, read_value(p.r, FALSE, "STR"))
    IN  flagged(read_value(r, FALSE, "U8"))

\* Reader::get_column: [res, r]
get_column(r) ==
    LET constant(name, kind, p) ==
            IF ~p.res.ok THEN p
            ELSE [res |-> Ok(SchemaColumn(name, "Constant", kind)), r |-> p.r]
        stored(flag, name, kind, r2) ==
            CASE (flag \div 16) * 16 = 16 -> [res |-> Ok(SchemaColumn(name, "Zero", kind)), r |-> r2]
              [] (flag \div 16) * 16 = 48 ->
                    constant(name, kind, discard_value(r2, discarded_kind(kind)))
              [] (flag \div 16) * 16 = 80 -> [res |-> Ok(SchemaColumn(name, "Rowed", kind)), r |-> r2]
              [] OTHER -> [res |-> Err(<<"InvalidColumnStorage", (flag \div 16) * 16>>), r |-> r2]
        kinded(flag, name, kind, r2) ==
            IF kind = <<>>
            THEN [res |-> Err(<<"InvalidColumnType", flag % 16>>), r |-> r2]
            ELSE stored(flag, name, kind[1], r2)
        named(flag, p) ==
            IF ~p.res.ok THEN p
            ELSE kinded(flag, p.res.val.val, value_kind(flag % 16), p.r)
        flagged(p) ==
            IF ~p.res.ok THEN p ELSE named(p.res.val.val, read_value(p.r, FALSE, "STR"))
    IN  flagged(read_value(r, FALSE, "U8"))

\* Schema::read: the loop over the column buffer
RECURSIVE read_columns_of_schema(_, _)
read_columns_of_schema(r, columns) ==
    LET pushed(p) ==
            IF ~p.res.ok THEN p
            ELSE read_columns_of_schema(p.r, Append(columns, p.res.val))
    IN  IF more_column_data(r) THEN pushed(get_column(r))
        ELSE [res |-> Ok(columns), r |-> r]

\* Schema::read: [res, r], r the reader it built
Schema_read(src, overflow_checks) ==
    LET made(p) ==
            IF ~p.res.ok THEN p
            ELSE [ res |-> Ok([table_name |-> table_name(p.r), columns |-> p.res.val]),
                   r   |-> p.r ]
        parsed(n) ==
            IF ~n.res.ok THEN n ELSE made(read_columns_of_schema(n.r, <<>>))
    IN  parsed(Reader_new(src, overflow_checks))

\* Schema::has_column
has_column(schema, name) ==
    \E i \in DOMAIN schema.columns : schema.columns[i].name = name

\* a mask that does not turn the guard into the magic
DECRYPTION_MASK_ascending == [i \in 1..64 |-> i]

(***************************************************************************)
(* The cipher (packet/cri_encryption.rs).  A buffer is the memory of its   *)
(* allocation, a sequence of capacity bytes, of which the first len are    *)
(* the slice handed to the cipher.                                         *)
(***************************************************************************)
DECRYPTION_MASK ==
    << 95, 203, 167, 179, 175, 91, 119, 195, 255, 235, 71, 211, 79, 123,
       23, 227, 159, 11, 231, 243, 239, 155, 183, 3, 63, 43, 135, 19,
       143, 187, 87, 35, 223, 75, 39, 51, 47, 219, 247, 67, 127, 107,
       199, 83, 207, 251, 151, 99, 31, 139, 103, 115, 111, 27, 55, 131,
       191, 171, 7, 147, 15, 59, 215, 163 >>

\* a & b
RECURSIVE BitAnd(_, _)
BitAnd(a, b) ==
    IF a = 0 \/ b = 0 THEN 0
    ELSE 2 * BitAnd(a \div 2, b \div 2) + (IF a % 2 = 1 /\ b % 2 = 1 THEN 1 ELSE 0)

\* a ^ b
RECURSIVE BitXor(_, _)
BitXor(a, b) ==
    IF a = 0 THEN b
    ELSE IF b = 0 THEN a
    ELSE 2 * BitXor(a \div 2, b \div 2) + (IF a % 2 = b % 2 THEN 0 ELSE 1)

\* usize::div_ceil
div_ceil(a, b) == (a + b - 1) \div b

\* the xor of two words or vectors, given as their bytes in memory
vector_xor(a, b) == [k \in 1..Len(a) |-> BitXor(a[k], b[k])]

\* element i of a byte sequence transmuted to elements of `bytes` bytes
Element(mem, i, bytes) == Slice(mem, i * bytes, (i + 1) * bytes)

\* a loop that leaves the last, partial element alone
element_count_floor(len, bytes) == len \div bytes

\* the number of elements the loop visits: src.len().div_ceil(bits >> 3)
element_count(len, bytes) == div_ceil(len, bytes)

\* a loop that always takes the first element of the mask
mask_index_first(i, bytes) == 0

\* i & IDX_MASK, with IDX_MASK = 512 / bits - 1 (i & 7 for the 8-byte words)
mask_index(i, bytes) == BitAnd(i, (64 \div bytes) - 1)

\* the while loop of decrypt_fallback and of decrypt_vectored!: dst after
\* the iterations i .. count - 1
RECURSIVE decrypt_loop(_, _, _, _, _)
decrypt_loop(i, count, bytes, src, dst) ==
    IF i >= count THEN dst
    ELSE decrypt_loop(i + 1, count, bytes, src,
            SubSeq(dst, 1, i * bytes)
            \o vector_xor(Element(src, i, bytes),
                          Element(DECRYPTION_MASK, mask_index(i, bytes), bytes))
            \o SubSeqFrom(dst, (i + 1) * bytes))

\* decrypt_fallback (8), decrypt_sse2 (16), decrypt_avx2 (32),
\* decrypt_avx512f (64): the memory of dst afterwards
decrypt_vectored(bytes, src, len, dst) ==
    decrypt_loop(0, element_count(len, bytes), bytes, src, dst)

CpuFeatures == {"avx512f", "avx2", "sse2", "none"}

\* decrypt: the path taken for the best feature the CPU reports
decrypt(feature, src, len, dst) ==
    decrypt_vectored(CASE feature = "avx512f" -> 64
                       [] feature = "avx2"    -> 32
                       [] feature = "sse2"    -> 16
                       [] OTHER               -> 8,
                     src, len, dst)

\* the alignment of the element type of that path: __m512i, __m256i,
\* __m128i, u64
element_align(feature) ==
    CASE feature = "avx512f" -> 64
      [] feature = "avx2"    -> 32
      [] feature = "sse2"    -> 16
      [] OTHER               -> 8

\* encrypt
encrypt(feature, src, len, dst) == decrypt(feature, src, len, dst)

\* a guard test that reads the guard value big endian
can_decrypt_big_endian(src) == Slice(src, 0, 4) = <<245, 243, 158, 31>>

\* can_decrypt: the first four bytes are 0xF5F39E1F, little endian
can_decrypt(src) == Slice(src, 0, 4) = <<31, 158, 243, 245>>

\* aligned_vec: the capacity of the allocation
minimum_size(size) == div_ceil(size, 64) * 64

\* the first n bytes of memory that was allocated and not yet written: what
\* the allocator left there, given as a non-empty sequence of bytes that is
\* repeated to the length asked for
uninitialized(fill, n) == [i \in 1..n |-> fill[((i - 1) % Len(fill)) + 1]]

\* aligned_vec_full(size): the memory of the allocation, not yet written
aligned_vec_full(size, fill) == uninitialized(fill, minimum_size(size))

\* table_size (the 8 little-endian bytes b) against the limits of
\* aligned_vec (packet.rs:12-13):
\*   "wrapping" from 2^64 - 63 on, where div_ceil(64) << 6 wraps to 0;
\*   "invalid"  from 2^63 - 63 on, where the size rounded up exceeds
\*              isize::MAX and Layout::from_size_align fails;
\*   "large"    from 2^31 on;
\*   "small"    below.
declared_size_class(b) ==
    LET top_ones == \A k \in 2..7 : b[k] = 255 IN
    IF top_ones /\ b[8] = 255 /\ b[1] >= 193 THEN "wrapping"
    ELSE IF b[8] >= 128 \/ (top_ones /\ b[8] = 127 /\ b[1] >= 193) THEN "invalid"
    ELSE IF b[4] >= 128 \/ (\E k \in 5..8 : b[k] # 0) THEN "large"
    ELSE "small"

\* what the allocator and the machine do with read_packet's two buffers:
\* the allocator grants them ("granted") or returns null ("refused"); with
\* "fault" it grants them and the process stops on the first access outside
\* an allocation
MemoryOutcomes == {"granted", "refused", "fault"}

\* the process stopped inside the call (a panic, an abort or a fault): the
\* call did not return
stopped(res) == ~res.ok /\ res.err[1] \in {"panic", "abort", "fault"}

(***************************************************************************)
(* The code that #[utf_table] generates (criware-utf-macros, impls.rs),    *)
(* as a function of the schema.  A schema is [table_name, columns]; a      *)
(* column is [name, storage, optional, kind] with optional <<>> for a      *)
(* plain column and <<included>> for an #[optional] one.  A table is       *)
(* [constants, rows, write_context]: constants and every row hold one cell *)
(* per column of the schema (<<>> where the column has no field there), a  *)
(* cell of an optional column being <<v>> (Some) or <<>> (None).           *)
(***************************************************************************)
Constant(c) == c.storage = "Constant"
Rowed(c) == c.storage = "Rowed"
Optional(c) == c.optional # <<>>

\* Columns::has_row, Columns::has_optional_row
has_row(schema) == \E i \in DOMAIN schema.columns : Rowed(schema.columns[i])
has_optional_row(schema) ==
    \E i \in DOMAIN schema.columns :
        Rowed(schema.columns[i]) /\ Optional(schema.columns[i])

\* a context that leaves out a column it has no record of
is_included_unless_unknown(write_context, column_name) ==
    IF column_name \in DOMAIN write_context THEN write_context[column_name] ELSE FALSE

\* WriteContext::is_included
is_included(write_context, column_name) ==
    IF column_name \in DOMAIN write_context THEN write_context[column_name] ELSE TRUE

\* WriteContext::set_inclusion_state
set_inclusion_state(write_context, column_name, included) ==
    MapInsert(write_context, column_name, included)

\* write::push_column: the condition variable of an optional rowed column
condition(schema, table, i) ==
    IF table.rows = <<>>
    THEN is_included(table.write_context, schema.columns[i].name)
    ELSE table.rows[1][i] # <<>>

\* write::push_column for column i: [ok, w, (err)]
push_column(w, schema, table, i, overflow_checks) ==
    LET c == schema.columns[i] IN
    IF Constant(c)
    THEN push_constant_column_private(w, c.name, c.kind,
             IF Optional(c) THEN table.constants[i] ELSE <<table.constants[i]>>,
             overflow_checks)
    ELSE push_rowed_column_private(w, c.name,
             IF Optional(c) THEN condition(schema, table, i) ELSE TRUE,
             PrimitiveOf(c.kind), overflow_checks)

\* fn_write: the column code, for the columns i ..
RECURSIVE push_columns(_, _, _, _, _)
push_columns(w, schema, table, i, overflow_checks) ==
    LET next(p) ==
            IF p.ok THEN push_columns(p.w, schema, table, i + 1, overflow_checks) ELSE p
    IN  IF i > Len(schema.columns) THEN [ok |-> TRUE, w |-> w]
        ELSE next(push_column(w, schema, table, i, overflow_checks))

\* a row code that writes whatever the row holds
write_row_value_unchecked(w, schema, table, row, i) ==
    LET c == schema.columns[i] IN
    IF Optional(c)
    THEN IF row[i] # <<>> THEN write_value(w, TRUE, row[i][1])
         ELSE [ok |-> TRUE, w |-> w]
    ELSE write_value(w, TRUE, row[i])

\* write::write_row_value for the rowed column i: [ok, w, (err)]
write_row_value(w, schema, table, row, i) ==
    LET c == schema.columns[i] IN
    IF Optional(c)
    THEN IF condition(schema, table, i) # (row[i] # <<>>)
         THEN [ok |-> FALSE, w |-> w, err |-> <<"OptionalColumnConflict", c.name>>]
         ELSE IF condition(schema, table, i)
         THEN write_value(w, TRUE, row[i][1])
         ELSE [ok |-> TRUE, w |-> w]
    ELSE write_value(w, TRUE, row[i])

\* write::write_rows: the loop over the rows, from row r and column i on
RECURSIVE write_rows(_, _, _, _, _)
write_rows(w, schema, table, r, i) ==
    LET next(p) == IF p.ok THEN write_rows(p.w, schema, table, r, i + 1) ELSE p IN
    IF r > Len(table.rows) THEN [ok |-> TRUE, w |-> w]
    ELSE IF i > Len(schema.columns) THEN write_rows(w, schema, table, r + 1, 1)
    ELSE IF ~Rowed(schema.columns[i]) THEN write_rows(w, schema, table, r, i + 1)
    ELSE next(write_row_value(w, schema, table, table.rows[r], i))

\* write::end: the sum of the utf_size_of terms of the columns i ..
RECURSIVE utf_sizes(_, _, _)
utf_sizes(schema, table, i) ==
    IF i > Len(schema.columns) THEN 0
    ELSE LET c == schema.columns[i] IN
         (IF ~Rowed(c) THEN 0
          ELSE IF Optional(c)
          THEN IF condition(schema, table, i) THEN utf_size_of(c.kind) ELSE 0
          ELSE utf_size_of(c.kind))
         + utf_sizes(schema, table, i + 1)

\* an end that counts every rowed column, stored or not
RECURSIVE utf_sizes_all(_, _)
utf_sizes_all(schema, i) ==
    IF i > Len(schema.columns) THEN 0
    ELSE (IF Rowed(schema.columns[i]) THEN utf_size_of(schema.columns[i].kind) ELSE 0)
         + utf_sizes_all(schema, i + 1)

end_arguments_all(schema, table) ==
    IF has_row(schema)
    THEN <<utf_sizes_all(schema, 1) % 65536, Len(table.rows)>>
    ELSE <<0, 0>>

\* write::end: the arguments (row_size as u16, row_count as u32) of end
end_arguments(schema, table) ==
    IF has_row(schema)
    THEN <<utf_sizes(schema, table, 1) % 65536, Len(table.rows)>>
    ELSE <<0, 0>>

\* fn_write: Table::write.  [res, out, w, declared]: the result, the bytes
\* written to the sink, the Writer as it was when write returned and the
\* arguments end was or would have been called with.
Table_write(schema, table, overflow_checks) ==
    LET rows(c) == IF c.ok THEN write_rows(c.w, schema, table, 1, 1) ELSE c
        ended(r, a, e) ==
            IF ~r.ok
            THEN [res |-> Err(r.err), out |-> <<>>, w |-> r.w, declared |-> a]
            ELSE [ res |-> IF e.ok THEN Ok("unit") ELSE Err(e.err),
                   out |-> e.out, w |-> r.w, declared |-> a ]
        end(r, a) == ended(r, a, Writer_end(r.w, a[1], a[2]))
    IN  end(rows(push_columns(WriterNew(schema.table_name), schema, table, 1,
                              overflow_checks)),
            end_arguments(schema, table))

\* Default::default() of the field type of a kind
default(kind) ==
    CASE kind = "STR" -> TV("STR", <<>>) [] kind = "BLOB" -> TV("BLOB", <<>>)
      [] kind = ArrayType -> TV(ArrayType, <<0, 0>>)
      [] OTHER -> TV(kind, 0)

\* new::constants: the field of column i
new_constant(c) ==
    IF ~Constant(c) THEN <<>>
    ELSE IF Optional(c) THEN (IF c.optional[1] THEN <<default(c.kind)>> ELSE <<>>)
    ELSE default(c.kind)

\* new::fn_new: the inclusions of the optional rowed columns i ..
RECURSIVE new_write_context(_, _, _)
new_write_context(schema, i, write_context) ==
    IF i > Len(schema.columns) THEN write_context
    ELSE new_write_context(schema, i + 1,
             IF Rowed(schema.columns[i]) /\ Optional(schema.columns[i])
             THEN set_inclusion_state(write_context, schema.columns[i].name,
                                      schema.columns[i].optional[1])
             ELSE write_context)

\* new::fn_new: Table::new
Table_new(schema) ==
    [ constants     |-> [i \in DOMAIN schema.columns |-> new_constant(schema.columns[i])],
      rows          |-> <<>>,
      write_context |-> new_write_context(schema, 1, <<>>) ]

\* read::read_column for column i: [res, r]
read_column(r, c) ==
    IF Constant(c)
    THEN IF Optional(c) THEN read_constant_column_opt(r, c.name, c.kind)
         ELSE read_constant_column(r, c.name, c.kind)
    ELSE IF Optional(c) THEN read_rowed_column_opt(r, c.name, c.kind)
         ELSE read_rowed_column(r, c.name, c.kind)

\* read::read_columns and read::context, for the columns i ..:
\* [ok, r, constants, conditions, write_context, (err)]
RECURSIVE read_columns(_, _, _, _, _, _)
read_columns(r, schema, i, constants, conditions, write_context) ==
    LET c == schema.columns[i]
        next(p) ==
             IF ~p.res.ok THEN [ok |-> FALSE, r |-> p.r, err |-> p.res.err]
             ELSE read_columns(p.r, schema, i + 1,
                      Append(constants, IF Constant(c) THEN p.res.val ELSE <<>>),
                      Append(conditions,
                             IF Rowed(c) THEN (IF Optional(c) THEN p.res.val ELSE TRUE)
                             ELSE FALSE),
                      IF Rowed(c) /\ Optional(c)
                      THEN set_inclusion_state(write_context, c.name, p.res.val)
                      ELSE write_context)
    IN  IF i > Len(schema.columns)
        THEN [ ok |-> TRUE, r |-> r, constants |-> constants,
               conditions |-> conditions, write_context |-> write_context ]
        ELSE next(read_column(r, c))

\* read::read_row_value for the columns i .. of one row: [ok, r, row, (err)]
RECURSIVE read_row(_, _, _, _, _)
read_row(r, schema, conditions, i, row) ==
    LET c == schema.columns[i]
        next(p) ==
            IF ~p.res.ok THEN [ok |-> FALSE, r |-> p.r, err |-> p.res.err]
            ELSE read_row(p.r, schema, conditions, i + 1,
                     Append(row, IF Optional(c) THEN <<p.res.val>> ELSE p.res.val))
    IN  IF i > Len(schema.columns) THEN [ok |-> TRUE, r |-> r, row |-> row]
        ELSE IF ~Rowed(c) \/ ~conditions[i]
        THEN read_row(r, schema, conditions, i + 1, Append(row, <<>>))
        ELSE next(read_value(r, TRUE, c.kind))

\* read::read_rows: while reader.more_row_data().  A pass that reads no byte
\* leaves more_row_data true for ever: the loop does not end.
RECURSIVE read_rows(_, _, _, _)
read_rows(r, schema, conditions, rows) ==
    LET next(p) ==
            IF ~p.ok THEN p
            ELSE IF p.r.row_pos = r.row_pos
            THEN [ok |-> FALSE, r |-> r, err |-> <<"does not terminate">>]
            ELSE read_rows(p.r, schema, conditions, Append(rows, p.row))
    IN  IF ~has_row(schema) \/ ~more_row_data(r) THEN [ok |-> TRUE, r |-> r, rows |-> rows]
        ELSE next(read_row(r, schema, conditions, 1, <<>>))

\* a Table::read that checks the number of columns only
Table_read_any_name(schema, src, overflow_checks) ==
    LET table(c, w) ==
            IF ~w.ok THEN Err(w.err)
            ELSE Ok([ constants |-> c.constants, rows |-> w.rows,
                      write_context |-> c.write_context ])
        rows(c) ==
            IF ~c.ok THEN Err(c.err)
            ELSE table(c, read_rows(c.r, schema, c.conditions, <<>>))
        columns(n) ==
            IF ~n.res.ok THEN n.res
            ELSE IF field_count(n.r) # Len(schema.columns)
            THEN Err(<<"WrongTableSchema">>)
            ELSE rows(read_columns(n.r, schema, 1, <<>>, <<>>, <<>>))
    IN  columns(Reader_new(src, overflow_checks))

\* fn_read: Table::read on the bytes src.  The result is the table or the
\* error.
Table_read(schema, src, overflow_checks) ==
    LET table(c, w) ==
            IF ~w.ok THEN Err(w.err)
            ELSE Ok([ constants |-> c.constants, rows |-> w.rows,
                      write_context |-> c.write_context ])
        rows(c) ==
            IF ~c.ok THEN Err(c.err)
            ELSE table(c, read_rows(c.r, schema, c.conditions, <<>>))
        columns(n) ==
            IF ~n.res.ok THEN n.res
            ELSE IF \/ field_count(n.r) # Len(schema.columns)
                    \/ table_name(n.r) # schema.table_name
            THEN Err(<<"WrongTableSchema">>)
            ELSE rows(read_columns(n.r, schema, 1, <<>>, <<>>, <<>>))
    IN  columns(Reader_new(src, overflow_checks))

(***************************************************************************)
(* Packets (packet.rs).  A packet is [prefix, encrypted, unknown_value,    *)
(* table].                                                                 *)
(***************************************************************************)
\* Packet::from_table
from_table(table, prefix) ==
    [prefix |-> prefix, encrypted |-> FALSE, unknown_value |-> 0, table |-> table]

\* Packet::enable_encryption, Packet::disable_encryption, Packet::is_encrypted
enable_encryption(packet) == [packet EXCEPT !.encrypted = TRUE]
disable_encryption(packet) == [packet EXCEPT !.encrypted = FALSE]
is_encrypted(packet) == packet.encrypted

\* aligned_vec_empty(): the capacity of the buffer the table is written to
aligned_vec_empty_capacity == minimum_size(256)

\* the alignments the allocator may give a buffer that it had to move
ReallocAlignments == {16, 32, 64}

\* a write_packet that stores the unknown value most significant byte first
write_packet_unknown_big_endian(packet, schema, feature, fill, align_to, fault, overflow_checks) ==
    LET packed(t, len) ==
            LET payload == IF packet.encrypted
                           THEN SubSeq(encrypt(feature,
                                               t.out \o SubSeqFrom(aligned_vec_full(len, fill), len),
                                               len, aligned_vec_full(len, fill)),
                                       1, len)
                           ELSE t.out
            IN  IF ~t.res.ok THEN [res |-> t.res, out |-> <<>>, crashed |-> FALSE]
                ELSE [ res |-> Ok("unit"),
                       out |-> packet.prefix \o to_be_bytes(packet.unknown_value, 4)
                               \o to_le_bytes(len, 8) \o payload,
                       crashed |-> FALSE ]
        written(t) == packed(t, Len(t.out))
    IN  written(Table_write(schema, packet.table, overflow_checks))

\* Packet::write_packet.  The table buffer starts as a 64-byte aligned
\* allocation of 256 bytes behind a Vec<u8>; once the table outgrows it the
\* Vec reallocates with the alignment of u8 and the buffer lies wherever the
\* allocator puts it (realloc_align).  The cipher then reads it through a
\* reference to vectors: when the buffer is not aligned for them the
\* behaviour is undefined, and the build either runs the loop as if it were
\* or stops on the misaligned access (fault).  The spare capacity of the
\* table buffer holds what the allocator left there (fill).
\* [res, out, crashed]: the result, the bytes written to the sink.
write_packet(packet, schema, feature, fill, realloc_align, fault, overflow_checks) ==
    LET packed(t, len) ==
            LET align   == IF len > aligned_vec_empty_capacity THEN realloc_align ELSE 64
                buffer  == t.out \o SubSeqFrom(aligned_vec_full(len, fill), len)
                payload == IF packet.encrypted
                           THEN SubSeq(encrypt(feature, buffer, len,
                                               aligned_vec_full(len, fill)),
                                       1, len)
                           ELSE t.out
            IN  IF ~t.res.ok THEN [res |-> t.res, out |-> <<>>, crashed |-> FALSE]
                ELSE IF packet.encrypted /\ align < element_align(feature) /\ fault
                THEN [res |-> NoResult, out |-> <<>>, crashed |-> TRUE]
                ELSE [ res |-> Ok("unit"),
                       out |-> packet.prefix \o to_le_bytes(packet.unknown_value, 4)
                               \o to_le_bytes(len, 8) \o payload,
                       crashed |-> FALSE ]
        written(t) == packed(t, Len(t.out))
    IN  written(Table_write(schema, packet.table, overflow_checks))

\* Packet::read_packet: the packet, or the error.  The two buffers of
\* table_size bytes are allocated before the payload is read: a size that
\* Layout refuses panics, an allocation that the allocator refuses aborts
\* the process, and a size for which the capacity wraps to 0 makes the
\* buffers zero-sized allocations behind slices of table_size bytes, which
\* is undefined: read_exact then writes the rest of the stream outside them
\* and the build either goes on to the end of the stream or stops (fault).
\* A stream holds fewer than 2^31 bytes.
read_packet(src, prefix, schema, feature, fill, overflow_checks, memory) ==
    LET n == Len(src)
        class == declared_size_class(Slice(src, 8, 16))
        body(unknown_value, table_size) ==
            LET packet(encrypted, t) ==
                    IF ~t.ok THEN t
                    ELSE Ok([ prefix |-> prefix, encrypted |-> encrypted,
                              unknown_value |-> unknown_value, table |-> t.val ])
                \* the table is read from table_data as it is when it starts
                \* with "@UTF", and from decrypted_table_data when that does
                table(encrypted, data) ==
                    IF Slice(data, 0, 4) = <<64, 85, 84, 70>>
                    THEN packet(encrypted,
                                Table_read(schema, SubSeq(data, 1, table_size),
                                           overflow_checks))
                    ELSE Err(<<"DecryptionError">>)
                read(table_data, plain) ==
                    IF ~plain /\ ~can_decrypt(table_data) THEN Err(<<"DecryptionError">>)
                    ELSE table(~plain,
                               IF plain THEN table_data
                               ELSE decrypt(feature, table_data, table_size,
                                            aligned_vec_full(table_size, fill)))
                buffered(table_data) ==
                    read(table_data, Slice(table_data, 0, 4) = <<64, 85, 84, 70>>)
            IN  IF table_size < 32 THEN Err(<<"MalformedHeader">>)
                ELSE IF memory = "refused"
                THEN Err(<<"abort", "memory allocation failed">>)
                ELSE IF n < 16 + table_size THEN io("UTF table")
                ELSE buffered(Slice(src, 16, 16 + table_size)
                              \o SubSeqFrom(aligned_vec_full(table_size, fill), table_size))
    IN  IF n < 16 THEN io("UTF packet header")
        ELSE IF prefix # Slice(src, 0, 4) THEN Err(<<"WrongTableSchema">>)
        ELSE IF class = "invalid" THEN Err(<<"panic", "Invalid layout: LayoutError">>)
        ELSE IF class = "wrapping"
        THEN (IF memory = "refused" THEN Err(<<"abort", "memory allocation failed">>)
              ELSE IF memory = "fault" /\ n > 16 THEN Err(<<"fault">>)
              ELSE io("UTF table"))
        ELSE IF class = "large"
        THEN (IF memory = "refused" THEN Err(<<"abort", "memory allocation failed">>)
              ELSE io("UTF table"))
        ELSE body(from_le_bytes(Slice(src, 4, 8)), from_le_bytes(Slice(src, 8, 16)))

\* a read_packet that fills its table buffer before it looks at the header
read_packet_consumed_payload_first(src, prefix, memory) ==
    IF Len(src) < 16 THEN Len(src)
    ELSE IF declared_size_class(Slice(src, 8, 16)) # "small" THEN Len(src)
    ELSE Min(Len(src), 16 + from_le_bytes(Slice(src, 8, 16)))

\* Packet::read_packet: the number of bytes its read_exact calls take from
\* the stream (on a failed read_exact, the bytes the stream had left); the
\* payload is not read when the buffers could not be allocated
read_packet_consumed(src, prefix, memory) ==
    LET class == declared_size_class(Slice(src, 8, 16)) IN
    IF Len(src) < 16 THEN Len(src)
    ELSE IF prefix # Slice(src, 0, 4) THEN 16
    ELSE IF class = "invalid" THEN 16
    ELSE IF class \in {"wrapping", "large"}
    THEN (IF memory = "refused" THEN 16 ELSE Len(src))
    ELSE IF from_le_bytes(Slice(src, 8, 16)) < 32 THEN 16
    ELSE IF memory = "refused" THEN 16
    ELSE Min(Len(src), 16 + from_le_bytes(Slice(src, 8, 16)))

(***************************************************************************)
(* The caller of the Writer and the Reader: a table is built with the      *)
(* Writer's public operations, emitted with end, parsed with Reader::new   *)
(* and read back with the typed reads that match the declarations.         *)
(***************************************************************************)
NoAux == [none |-> TRUE]

TableNames == {<<84>>}                                \* "T"
Names == {<<84>>, <<66, 67>>}                         \* "T", "BC"
Values == {TV("I16", -2), TV("STR", <<66, 67>>), TV("BLOB", <<1, 2>>)}
Kinds == {v.kind : v \in Values}

Call(op, name, kind, arg) == [op |-> op, name |-> name, kind |-> kind, arg |-> arg]

InitWriter ==
    /\ pc = "writing"
    /\ \E t \in TableNames :
          /\ writer = WriterNew(t)
          /\ aux = [table_name |-> t]
    /\ calls = <<>>
    /\ rowvals = <<>>
    /\ stream = <<>>
    /\ reader = NoReader
    /\ result = NoResult
    /\ reads = <<>>

Writing == pc = "writing" /\ Len(calls) + Len(rowvals) < MaxOps

\* Writer::push_constant_column
PushConstantColumn ==
    /\ Writing
    /\ \E name \in Names, tv \in Values, overflow_checks \in BOOLEAN :
          LET p == push_constant_column_private(writer, name, tv.kind, <<tv>>,
                                                overflow_checks) IN
          /\ writer' = p.w
          /\ result' = IF p.ok THEN Ok("unit") ELSE Err(p.err)
          /\ calls' = Append(calls, Call("push_constant_column", name, tv.kind, tv))
    /\ UNCHANGED <<pc, rowvals, stream, reader, reads, aux>>

\* Writer::push_constant_column_opt
PushConstantColumnOpt ==
    /\ Writing
    /\ \E name \in Names, kind \in Kinds :
       \E value \in {<<>>} \cup {<<tv>> : tv \in {v \in Values : v.kind = kind}},
          overflow_checks \in BOOLEAN :
          LET p == push_constant_column_private(writer, name, kind, value,
                                                overflow_checks) IN
          /\ writer' = p.w
          /\ result' = IF p.ok THEN Ok("unit") ELSE Err(p.err)
          /\ calls' = Append(calls, Call("push_constant_column_opt", name, kind, value))
    /\ UNCHANGED <<pc, rowvals, stream, reader, reads, aux>>

\* Writer::push_rowed_column
PushRowedColumn ==
    /\ Writing
    /\ \E name \in Names, kind \in Kinds, overflow_checks \in BOOLEAN :
          LET p == push_rowed_column_private(writer, name, TRUE, PrimitiveOf(kind),
                                             overflow_checks) IN
          /\ writer' = p.w
          /\ result' = IF p.ok THEN Ok("unit") ELSE Err(p.err)
          /\ calls' = Append(calls, Call("push_rowed_column", name, kind, TRUE))
    /\ UNCHANGED <<pc, rowvals, stream, reader, reads, aux>>

\* Writer::push_rowed_column_opt
PushRowedColumnOpt ==
    /\ Writing
    /\ \E name \in Names, kind \in Kinds, included \in BOOLEAN,
          overflow_checks \in BOOLEAN :
          LET p == push_rowed_column_private(writer, name, included, PrimitiveOf(kind),
                                             overflow_checks) IN
          /\ writer' = p.w
          /\ result' = IF p.ok THEN Ok("unit") ELSE Err(p.err)
          /\ calls' = Append(calls, Call("push_rowed_column_opt", name, kind, included))
    /\ UNCHANGED <<pc, rowvals, stream, reader, reads, aux>>

\* Writer::write_value(true, value)
WriteValue ==
    /\ Writing
    /\ \E tv \in Values :
          LET p == write_value(writer, TRUE, tv) IN
          /\ writer' = p.w
          /\ result' = IF p.ok THEN Ok("unit") ELSE Err(p.err)
          /\ rowvals' = IF p.ok THEN Append(rowvals, tv) ELSE rowvals
    /\ UNCHANGED <<pc, calls, stream, reader, reads, aux>>

\* the (row_size, row_count) pairs the caller of end may declare
RowCounts == {0, 1, 2}
EndArgs(w) == {0, Len(w.row_data) \div 2, Len(w.row_data)} \X RowCounts

\* Writer::end(sink, row_size, row_count), for a declaration that matches
\* the row buffer
End ==
    /\ pc = "writing"
    /\ \E a \in EndArgs(writer) :
          LET e == Writer_end(writer, a[1], a[2]) IN
          /\ e.ok
          /\ stream' = stream \o e.out
          /\ result' = Ok("unit")
          /\ aux' = [table_name |-> aux.table_name, row_size |-> a[1], row_count |-> a[2]]
    /\ pc' = "ended"
    /\ UNCHANGED <<writer, calls, rowvals, reader, reads>>

\* Reader::new on the emitted bytes
ReaderNew ==
    /\ pc = "ended"
    /\ \E n \in {Reader_new(stream, overflow_checks) : overflow_checks \in BOOLEAN} :
          /\ reader' = n.r
          /\ result' = n.res
          /\ pc' = IF n.res.ok THEN "reading" ELSE "failed"
    /\ UNCHANGED <<writer, calls, rowvals, stream, reads, aux>>

\* the declaration the next column read has to match
NextCall == calls[Len(reads) + 1]

ReadingColumn(op) ==
    /\ pc = "reading"
    /\ Len(reads) < Len(calls)
    /\ NextCall.op = op

Read(p) ==
    /\ reader' = p.r
    /\ result' = p.res
    /\ reads' = Append(reads, p.res)
    /\ pc' = IF p.res.ok THEN "reading" ELSE "failed"
    /\ UNCHANGED <<writer, calls, rowvals, stream, aux>>

\* Reader::read_constant_column with the declared name and type
ReadConstantColumn ==
    /\ ReadingColumn("push_constant_column")
    /\ Read(read_constant_column(reader, NextCall.name, NextCall.kind))

\* Reader::read_constant_column_opt with the declared name and type
ReadConstantColumnOpt ==
    /\ ReadingColumn("push_constant_column_opt")
    /\ Read(read_constant_column_opt(reader, NextCall.name, NextCall.kind))

\* Reader::read_rowed_column with the declared name and type
ReadRowedColumn ==
    /\ ReadingColumn("push_rowed_column")
    /\ Read(read_rowed_column(reader, NextCall.name, NextCall.kind))

\* Reader::read_rowed_column_opt with the declared name and type
ReadRowedColumnOpt ==
    /\ ReadingColumn("push_rowed_column_opt")
    /\ Read(read_rowed_column_opt(reader, NextCall.name, NextCall.kind))

\* Reader::read_value(true) with the type of the next row value written
ReadValue ==
    /\ pc = "reading"
    /\ Len(reads) >= Len(calls)
    /\ Len(reads) < Len(calls) + Len(rowvals)
    /\ Read(read_value(reader, TRUE, rowvals[Len(reads) - Len(calls) + 1].kind))

Next ==
    \/ PushConstantColumn
    \/ PushConstantColumnOpt
    \/ PushRowedColumn
    \/ PushRowedColumnOpt
    \/ WriteValue
    \/ End
    \/ ReaderNew
    \/ ReadConstantColumn
    \/ ReadConstantColumnOpt
    \/ ReadRowedColumn
    \/ ReadRowedColumnOpt
    \/ ReadValue

Spec == InitWriter /\ [][Next]_vars

\* Writer::end(sink, row_size, row_count) for any declaration
EndAny ==
    /\ pc = "writing"
    /\ \E a \in EndArgs(writer) :
          LET e == Writer_end(writer, a[1], a[2]) IN
          /\ stream' = stream \o e.out
          /\ result' = IF e.ok THEN Ok("unit") ELSE Err(e.err)
          /\ pc' = IF e.ok THEN "ended" ELSE "end_failed"
          /\ aux' = [table_name |-> aux.table_name, row_size |-> a[1], row_count |-> a[2]]
    /\ UNCHANGED <<writer, calls, rowvals, reader, reads>>

NextEnd ==
    \/ PushConstantColumn
    \/ PushConstantColumnOpt
    \/ PushRowedColumn
    \/ PushRowedColumnOpt
    \/ WriteValue
    \/ EndAny

SpecEnd == InitWriter /\ [][NextEnd]_vars

(***************************************************************************)
(* Schema::read on the bytes that Writer::end emitted.                     *)
(***************************************************************************)
\* Schema::read(stream)
SchemaRead ==
    /\ pc = "ended"
    /\ \E s \in {Schema_read(stream, overflow_checks) : overflow_checks \in BOOLEAN} :
          /\ reader' = s.r
          /\ result' = s.res
          /\ pc' = IF s.res.ok THEN "schema_read" ELSE "failed"
    /\ UNCHANGED <<writer, calls, rowvals, stream, reads, aux>>

NextSchema ==
    \/ PushConstantColumn
    \/ PushConstantColumnOpt
    \/ PushRowedColumn
    \/ PushRowedColumnOpt
    \/ WriteValue
    \/ End
    \/ SchemaRead

SpecSchema == InitWriter /\ [][NextSchema]_vars

(***************************************************************************)
(* Writer::write_value into either buffer and Reader::read_value from      *)
(* either buffer of the table that was emitted.                            *)
(***************************************************************************)
\* the writes and reads of a run together; the last of them is a read
MaxValues == 3

\* a value of every primitive kind (1065353216 is the bit pattern of
\* 1.0f32), an array, and two values of the caller's type, the second of
\* which does not convert to its primitive
WidthValues ==
    { TV("U8", 255), TV("I8", -1), TV("U16", 513), TV("I16", -2), TV("U32", 8),
      TV("I32", -3), TV("U64", 5), TV("I64", -4), TV("F32", 1065353216),
      TV("STR", <<66, 67>>), TV("BLOB", <<1, 2>>), TV("BLOB", <<>>),
      TV(ArrayType, <<1, 2>>), TV(CallerType, 7), TV(CallerType, 200) }

\* Writer::write_value(rowed, value)
WriteValueAny ==
    /\ pc = "writing"
    /\ Len(rowvals) + 1 < MaxValues
    /\ \E rowed \in BOOLEAN, tv \in WidthValues :
          LET p == write_value(writer, rowed, tv) IN
          /\ writer' = p.w
          /\ result' = IF p.ok THEN Ok("unit") ELSE Err(p.err)
          /\ rowvals' = Append(rowvals, [rowed |-> rowed, value |-> tv, ok |-> p.ok])
    /\ UNCHANGED <<pc, calls, stream, reader, reads, aux>>

\* the values written to one buffer, in order
WrittenTo(rowed) == SelectSeq(rowvals, LAMBDA v : v.rowed = rowed /\ v.ok)

\* where the i-th value of a buffer starts
RECURSIVE OffsetOf(_, _)
OffsetOf(written, i) ==
    IF i = 1 THEN 0
    ELSE OffsetOf(written, i - 1) + utf_size_of(written[i - 1].value.kind)

\* the kinds of the values that start at a position of a buffer
KindsAt(rowed, pos) ==
    { WrittenTo(rowed)[i].value.kind :
        i \in {j \in 1..Len(WrittenTo(rowed)) : OffsetOf(WrittenTo(rowed), j) = pos} }

\* the primitives a stored primitive is read as: its own, and for an
\* unsigned integer also the reference of the same width
RetypedPrimitive(kind) ==
    {kind} \cup (IF kind = "U32" THEN {"STR"} ELSE {})
           \cup (IF kind = "U64" THEN {"BLOB"} ELSE {})

\* the types a stored value is read as: those of such a primitive
Retyped(kind) ==
    {T \in ValueTypes : PrimitiveOf(T) \in RetypedPrimitive(PrimitiveOf(kind))}

\* the reads whose number stays below 2^31: of a value as one of its types,
\* and of any type where fewer bytes are left than the type takes
Readable(row, kind) ==
    LET left == IF row THEN Len(reader.row_buffer) - reader.row_pos
                ELSE Len(reader.column_buffer) - reader.column_pos
        pos  == IF row THEN reader.row_pos ELSE reader.column_pos
    IN  \/ left < utf_size_of(kind)
        \/ \E k \in KindsAt(row, pos) : kind \in Retyped(k)

\* Reader::read_value::<T>(row)
ReadValueBack ==
    /\ pc = "reading"
    /\ Len(rowvals) + Len(reads) < MaxValues
    /\ \E row \in BOOLEAN, kind \in ValueTypes :
          /\ Readable(row, kind)
          /\ LET p == read_value(reader, row, kind) IN
                /\ reader' = p.r
                /\ result' = p.res
                /\ reads' = Append(reads, [row |-> row, kind |-> kind, res |-> p.res])
    /\ UNCHANGED <<pc, writer, calls, rowvals, stream, aux>>

NextWidth ==
    \/ WriteValueAny
    \/ End
    \/ ReaderNew
    \/ ReadValueBack

SpecWidth == InitWriter /\ [][NextWidth]_vars

(***************************************************************************)
(* Reader::new on arbitrary header bytes.                                  *)
(***************************************************************************)
NoWriter == [none |-> TRUE]

\* the two headers of a table, as Reader::new decodes them (lines 57-76)
EncodeHeader(magic, h) ==
    magic
    \o to_be_bytes(h.table_size, 4)
    \o to_be_bytes(h.row_offset, 4)
    \o to_be_bytes(h.string_offset, 4)
    \o to_be_bytes(h.blob_offset, 4)
    \o to_be_bytes(h.table_name, 4)
    \o to_be_bytes(h.field_count, 2)
    \o to_be_bytes(h.row_size, 2)
    \o to_be_bytes(h.row_count, 4)

Magics == {<<64, 85, 84, 70>>, <<64, 85, 84, 71>>}       \* "@UTF", "@UTG"
HeaderOffsets == {23, 24, 28, 32}
HeaderTableSizes == HeaderOffsets \cup {0, 36}
HeaderRowSizes == {1, 4}
HeaderRowCounts == {0, 1, 1073741824}
HeaderTableNames == {0, 1}
\* the bytes after the headers: "T" NUL "A" NUL, three times
HeaderBody == <<84, 0, 65, 0, 84, 0, 65, 0, 84, 0, 65, 0>>
\* lengths at which the stream ends
StreamLengths == {6, 20, 34, 38, 44}

Headers ==
    [ table_size : HeaderTableSizes, row_offset : HeaderOffsets,
      string_offset : HeaderOffsets, blob_offset : HeaderOffsets,
      table_name : HeaderTableNames, field_count : {0},
      row_size : HeaderRowSizes, row_count : HeaderRowCounts ]

InitNew ==
    /\ pc = "new"
    /\ \E magic \in Magics, h \in Headers, n \in StreamLengths, oc \in BOOLEAN :
          /\ stream = SubSeq(EncodeHeader(magic, h) \o HeaderBody, 1, n)
          /\ aux = [header |-> h, magic |-> magic, len |-> n, overflow_checks |-> oc]
    /\ writer = NoWriter
    /\ calls = <<>>
    /\ rowvals = <<>>
    /\ reader = NoReader
    /\ result = NoResult
    /\ reads = <<>>

\* Reader::new on the stream
ReaderNewAny ==
    /\ pc = "new"
    /\ LET n == Reader_new(stream, aux.overflow_checks) IN
          /\ reader' = n.r
          /\ result' = n.res
          /\ stream' = SubSeqFrom(stream, n.consumed)
    /\ pc' = "new_done"
    /\ UNCHANGED <<writer, calls, rowvals, reads, aux>>

NextNew == ReaderNewAny

SpecNew == InitNew /\ [][NextNew]_vars

(***************************************************************************)
(* One typed read on a Reader whose column descriptor, row bytes and blob  *)
(* pool are arbitrary.                                                     *)
(***************************************************************************)
MaxPool == 3

\* a table with the given regions; one row of Len(rows) bytes
TableBytes(columns, rows, string_data, blobs, name_index) ==
    EncodeHeader(<<64, 85, 84, 70>>,
                 [ table_size    |-> 24 + Len(columns) + Len(rows)
                                     + Len(string_data) + Len(blobs),
                   row_offset    |-> 24 + Len(columns),
                   string_offset |-> 24 + Len(columns) + Len(rows),
                   blob_offset   |-> 24 + Len(columns) + Len(rows) + Len(string_data),
                   table_name    |-> name_index,
                   field_count   |-> 1,
                   row_size      |-> Len(rows),
                   row_count     |-> 1 ])
    \o columns \o rows \o string_data \o blobs

\* "T" NUL "BC" NUL: the strings at offsets 0 and 2
ReadStrings == <<84, 0, 66, 67, 0>>
Pool(n) == [i \in 1..n |-> 10 + i]
BlobRef(offset, length) == to_be_bytes(offset, 4) \o to_be_bytes(length, 4)

StorageFlags == {0, 16, 32, 48, 80}
TypeFlags == 0..15
NameOffsets == {0, 1, 2}
DescriptorLengths == {0, 3, 5, 7, 13}

\* the reader Reader::new builds on the bytes
ReaderOn(bytes, overflow_checks) == Reader_new(bytes, overflow_checks).r

InitRead(columns, rows, blobs) ==
    /\ pc = "read"
    /\ stream = TableBytes(columns, rows, ReadStrings, blobs, 0)
    /\ \E overflow_checks \in BOOLEAN : reader = ReaderOn(stream, overflow_checks)
    /\ reader # NoReader
    /\ aux = [op |-> "none"]
    /\ writer = NoWriter
    /\ calls = <<>>
    /\ rowvals = <<>>
    /\ result = NoResult
    /\ reads = <<>>

\* any flag byte and name offset, a descriptor cut at any field
InitDescriptor ==
    \E storage \in StorageFlags, type \in TypeFlags, name \in NameOffsets,
       n \in DescriptorLengths :
       InitRead(SubSeq(<<storage + type>> \o to_be_bytes(name, 4) \o BlobRef(0, 2), 1, n),
                BlobRef(0, 2), Pool(MaxPool))

\* any blob reference against any pool, as a constant and as a row value
InitBlobRef ==
    \E size \in 0..MaxPool, offset \in 0..(MaxPool + 1), length \in 0..(MaxPool + 1) :
       InitRead(<<48 + 11>> \o to_be_bytes(0, 4) \o BlobRef(offset, length),
                BlobRef(offset, length), Pool(size))

\* a stored BLOB constant named "T" and a row buffer cut at any length
RowLengths == {0, 1, 3, 8}

InitRowData ==
    \E n \in RowLengths :
       InitRead(<<48 + 11>> \o to_be_bytes(0, 4) \o BlobRef(0, 2),
                SubSeq(BlobRef(0, 2), 1, n), Pool(MaxPool))

ReadAny(op, name, kind, row, p) ==
    /\ pc = "read"
    /\ reader' = p.r
    /\ result' = p.res
    /\ reads' = Append(reads, p.res)
    /\ aux' = [op |-> op, name |-> name, kind |-> kind, row |-> row]
    /\ pc' = "read_done"
    /\ UNCHANGED <<writer, calls, rowvals, stream>>


\* Reader::read_constant_column with any expected name and type
ReadConstantColumnAny ==
    \E name \in Names, kind \in ValueTypes :
        ReadAny("read_constant_column", name, kind, FALSE,
                read_constant_column(reader, name, kind))

\* Reader::read_constant_column_opt with any expected name and type
ReadConstantColumnOptAny ==
    \E name \in Names, kind \in ValueTypes :
        ReadAny("read_constant_column_opt", name, kind, FALSE,
                read_constant_column_opt(reader, name, kind))

\* Reader::read_rowed_column with any expected name and type
ReadRowedColumnAny ==
    \E name \in Names, kind \in ValueTypes :
        ReadAny("read_rowed_column", name, kind, FALSE,
                read_rowed_column(reader, name, kind))

\* Reader::read_rowed_column_opt with any expected name and type
ReadRowedColumnOptAny ==
    \E name \in Names, kind \in ValueTypes :
        ReadAny("read_rowed_column_opt", name, kind, FALSE,
                read_rowed_column_opt(reader, name, kind))

\* the types whose value at the head of either buffer stays below 2^31
ReadValueKinds == ValueTypes \ {"U64", "I64"}

\* Reader::read_value from the column or the row buffer
ReadValueAny ==
    \E row \in BOOLEAN, kind \in ReadValueKinds :
        ReadAny("read_value", <<>>, kind, row, read_value(reader, row, kind))

NextRead ==
    \/ ReadConstantColumnAny
    \/ ReadConstantColumnOptAny
    \/ ReadRowedColumnAny
    \/ ReadRowedColumnOptAny
    \/ ReadValueAny

SpecRead == (InitDescriptor \/ InitBlobRef \/ InitRowData) /\ [][NextRead]_vars

(***************************************************************************)
(* The cipher applied to a buffer, and applied again to its output.  The   *)
(* buffers are the 64-byte aligned allocations of aligned_vec_full.        *)
(***************************************************************************)
MaxLen == 66

\* what an allocation holds before it is written
UninitBytes == {<<0>>, <<170, 3, 254>>}
PlainSeeds == {0, 95}

Plain(seed, n) == [i \in 1..n |-> (seed + 7 * i) % 256]

InitCipher ==
    /\ pc = "plain"
    /\ \E feature \in CpuFeatures, n \in 0..MaxLen, seed \in PlainSeeds,
          fill \in UninitBytes :
          aux = [ feature |-> feature, len |-> n, fill |-> fill,
                  src |-> Plain(seed, n) \o SubSeqFrom(aligned_vec_full(n, fill), n),
                  enc |-> <<>>, out |-> <<>> ]
    /\ stream = <<>>
    /\ writer = NoWriter
    /\ calls = <<>>
    /\ rowvals = <<>>
    /\ reader = NoReader
    /\ result = NoResult
    /\ reads = <<>>

\* encrypt(src, dst) into a new buffer of the same length
Encrypt ==
    /\ pc = "plain"
    /\ aux' = [aux EXCEPT !.enc = encrypt(aux.feature, aux.src, aux.len,
                                          aligned_vec_full(aux.len, aux.fill))]
    /\ pc' = "encrypted"
    /\ UNCHANGED <<writer, calls, rowvals, stream, reader, result, reads>>

\* decrypt(src, dst) of the encrypted buffer into a new buffer
Decrypt ==
    /\ pc = "encrypted"
    /\ aux' = [aux EXCEPT !.out = decrypt(aux.feature, aux.enc, aux.len,
                                          aligned_vec_full(aux.len, aux.fill))]
    /\ pc' = "decrypted"
    /\ UNCHANGED <<writer, calls, rowvals, stream, reader, result, reads>>

\* encrypt(src, dst) of the encrypted buffer into a new buffer
EncryptAgain ==
    /\ pc = "encrypted"
    /\ aux' = [aux EXCEPT !.out = encrypt(aux.feature, aux.enc, aux.len,
                                          aligned_vec_full(aux.len, aux.fill))]
    /\ pc' = "encrypted_twice"
    /\ UNCHANGED <<writer, calls, rowvals, stream, reader, result, reads>>

NextCipher == Encrypt \/ Decrypt \/ EncryptAgain

SpecCipher == InitCipher /\ [][NextCipher]_vars

(***************************************************************************)
(* A generated table type: any schema over a few columns, any table of     *)
(* that schema, written with Table::write and read back with Table::read.  *)
(***************************************************************************)
MaxCols == 2
MaxRows == 3

Column(name, storage, optional, kind) ==
    [name |-> name, storage |-> storage, optional |-> optional, kind |-> kind]

\* "Comment", "Crc", "Id", "Name", "Data"
ColumnSpecs ==
    { Column(<<67, 111, 109, 109, 101, 110, 116>>, "Constant", <<>>, "STR"),
      Column(<<67, 114, 99>>, "Constant", <<TRUE>>, "I16"),
      Column(<<73, 100>>, "Rowed", <<>>, "U32"),
      Column(<<78, 97, 109, 101>>, "Rowed", <<TRUE>>, "STR"),
      Column(<<68, 97, 116, 97>>, "Rowed", <<FALSE>>, "BLOB") }

RECURSIVE SeqsUpTo(_, _)
SeqsUpTo(S, n) ==
    IF n = 0 THEN {<<>>}
    ELSE SeqsUpTo(S, n - 1)
         \cup {Append(q, x) : q \in {t \in SeqsUpTo(S, n - 1) : Len(t) = n - 1}, x \in S}

\* the sequences that take their i-th element from the i-th set
RECURSIVE Product(_)
Product(sets) ==
    IF sets = <<>> THEN {<<>>}
    ELSE {<<x>> \o rest : x \in Head(sets), rest \in Product(Tail(sets))}

\* "Demo"
Schemas ==
    {[table_name |-> <<68, 101, 109, 111>>, columns |-> cs] : cs \in SeqsUpTo(ColumnSpecs, MaxCols)}

\* the value of a field of row r (0 for a constant): "hi", -2, r, "n<r>", r r
FieldValue(c, r) ==
    CASE c.kind = "STR"  -> TV("STR", IF r = 0 THEN <<104, 105>> ELSE <<110, 48 + r>>)
      [] c.kind = "I16"  -> TV("I16", -2)
      [] c.kind = "U32"  -> TV("U32", r)
      [] c.kind = "BLOB" -> TV("BLOB", <<r, r>>)

Cells(c, r) == IF Optional(c) THEN {<<>>, <<FieldValue(c, r)>>} ELSE {FieldValue(c, r)}

ConstantsOf(schema) ==
    Product([i \in DOMAIN schema.columns |->
                IF Constant(schema.columns[i]) THEN Cells(schema.columns[i], 0)
                ELSE {<<>>}])

RowsOf(schema, n) ==
    Product([r \in 1..n |->
                Product([i \in DOMAIN schema.columns |->
                            IF Rowed(schema.columns[i]) THEN Cells(schema.columns[i], r)
                            ELSE {<<>>}])])

OptionalRowNames(schema) ==
    {schema.columns[i].name : i \in {j \in DOMAIN schema.columns :
                                      Rowed(schema.columns[j]) /\ Optional(schema.columns[j])}}

\* a table with rows as the program builds it, and a table without rows
\* with any inclusion state (as Table::new or Table::read leave it)
TablesOf(schema) ==
    { [constants |-> c, rows |-> rows, write_context |-> <<>>] :
        c \in ConstantsOf(schema),
        rows \in UNION {RowsOf(schema, n) : n \in 0..(IF has_row(schema) THEN MaxRows ELSE 0)} }
    \cup
    { [constants |-> c, rows |-> <<>>, write_context |-> ctx] :
        c \in ConstantsOf(schema), ctx \in [OptionalRowNames(schema) -> BOOLEAN] }

InitTable ==
    /\ pc = "table"
    /\ \E schema \in Schemas : \E table \in TablesOf(schema) :
          aux = [schema |-> schema, table |-> table, declared |-> <<>>]
    /\ stream = <<>>
    /\ writer = NoWriter
    /\ calls = <<>>
    /\ rowvals = <<>>
    /\ reader = NoReader
    /\ result = NoResult
    /\ reads = <<>>

\* Table::write(sink)
TableWrite ==
    /\ pc = "table"
    /\ \E overflow_checks \in BOOLEAN :
       LET t == Table_write(aux.schema, aux.table, overflow_checks) IN
          /\ stream' = stream \o t.out
          /\ result' = t.res
          /\ writer' = t.w
          /\ aux' = [aux EXCEPT !.declared = t.declared]
    /\ pc' = "table_written"
    /\ UNCHANGED <<calls, rowvals, reader, reads>>

\* Table::read on the bytes Table::write produced
TableRead ==
    /\ pc = "table_written"
    /\ result.ok
    /\ \E overflow_checks \in BOOLEAN :
          result' = Table_read(aux.schema, stream, overflow_checks)
    /\ pc' = "table_read"
    /\ UNCHANGED <<writer, calls, rowvals, stream, reader, reads, aux>>

NextTable == TableWrite \/ TableRead

SpecTable == InitTable /\ [][NextTable]_vars

(***************************************************************************)
(* A packet of a generated table type, written with write_packet and read  *)
(* back with read_packet.                                                  *)
(***************************************************************************)
(* The life of a table: made by Table::new or built by hand with an empty  *)
(* WriteContext, given rows, emptied of them, written with Table::write    *)
(* and read back with Table::read.                                         *)
(***************************************************************************)
MaxSteps == 5

\* the schemas with one column, or with an optional rowed column
ContextSchemas == {s \in Schemas : Len(s.columns) = 1 \/ has_optional_row(s)}

InitContext ==
    /\ pc = "table"
    /\ \E schema \in ContextSchemas :
          \/ aux = [ schema |-> schema, table |-> Table_new(schema),
                     origin |-> "new", forms |-> <<>>, steps |-> 0 ]
          \/ \E c \in ConstantsOf(schema) :
                aux = [ schema |-> schema,
                        table  |-> [constants |-> c, rows |-> <<>>, write_context |-> <<>>],
                        origin |-> "built", forms |-> <<>>, steps |-> 0 ]
    /\ stream = <<>>
    /\ writer = NoWriter
    /\ calls = <<>>
    /\ rowvals = <<>>
    /\ reader = NoReader
    /\ result = NoResult
    /\ reads = <<>>

Editing == pc = "table" /\ aux.steps < MaxSteps

\* table.rows.push(row)
PushRow ==
    /\ Editing
    /\ has_row(aux.schema)
    /\ \E row \in Product([i \in DOMAIN aux.schema.columns |->
                              IF Rowed(aux.schema.columns[i])
                              THEN Cells(aux.schema.columns[i], Len(aux.table.rows) + 1)
                              ELSE {<<>>}]) :
          aux' = [aux EXCEPT !.table.rows = Append(@, row), !.steps = @ + 1]
    /\ UNCHANGED <<pc, writer, calls, rowvals, stream, reader, result, reads>>

\* table.rows.clear()
ClearRows ==
    /\ Editing
    /\ aux.table.rows # <<>>
    /\ aux' = [aux EXCEPT !.table.rows = <<>>, !.steps = @ + 1]
    /\ UNCHANGED <<pc, writer, calls, rowvals, stream, reader, result, reads>>

\* Table::write into an empty sink
TableWriteOut ==
    /\ Editing
    /\ \E overflow_checks \in BOOLEAN :
       LET t == Table_write(aux.schema, aux.table, overflow_checks) IN
          /\ stream' = t.out
          /\ result' = t.res
          /\ writer' = t.w
    /\ aux' = [aux EXCEPT !.steps = @ + 1]
    /\ pc' = "table_written"
    /\ UNCHANGED <<calls, rowvals, reader, reads>>

\* the storage forms of the descriptors of a table, as Schema::read finds them
StoredForms(src, overflow_checks) ==
    LET forms(s) ==
            IF ~s.res.ok THEN <<>>
            ELSE [i \in DOMAIN s.res.val.columns |-> s.res.val.columns[i].storage_format]
    IN  forms(Schema_read(src, overflow_checks))

\* Table::read of the bytes that were written; the table read takes the
\* place of the one that was written
TableReadBack ==
    /\ pc = "table_written"
    /\ result.ok
    /\ aux.steps < MaxSteps
    /\ \E overflow_checks \in BOOLEAN :
       LET t == Table_read(aux.schema, stream, overflow_checks) IN
          /\ result' = t
          /\ pc' = IF t.ok THEN "table" ELSE "failed"
          /\ aux' = IF t.ok
                    THEN [aux EXCEPT !.table = t.val, !.origin = "read",
                                     !.forms = StoredForms(stream, overflow_checks), !.steps = @ + 1]
                    ELSE [aux EXCEPT !.steps = @ + 1]
    /\ UNCHANGED <<writer, calls, rowvals, stream, reader, reads>>

NextContext == PushRow \/ ClearRows \/ TableWriteOut \/ TableReadBack

SpecContext == InitContext /\ [][NextContext]_vars

(***************************************************************************)
(* Table::read of the bytes of a table with the Table type of another      *)
(* schema.                                                                 *)
(***************************************************************************)
\* "Dem"
OtherTableName == <<68, 101, 109>>

\* the schemas a table of a schema is read with: its own, one with another
\* table name, one without its last column, ones with a column more, ones
\* with another first column
ExpectedSchemas(schema) ==
    {schema, [schema EXCEPT !.table_name = OtherTableName]}
    \cup (IF schema.columns = <<>> THEN {}
          ELSE {[schema EXCEPT !.columns = SubSeq(@, 1, Len(@) - 1)]})
    \cup {[schema EXCEPT !.columns = Append(@, c)] : c \in ColumnSpecs}
    \cup (IF schema.columns = <<>> THEN {}
          ELSE {[table_name |-> n, columns |-> [schema.columns EXCEPT ![1] = c]] :
                   n \in {schema.table_name, OtherTableName}, c \in ColumnSpecs})

\* Table::read of another table type on the bytes Table::write produced
TableReadAs ==
    /\ pc = "table_written"
    /\ result.ok
    /\ \E expected \in ExpectedSchemas(aux.schema) :
          /\ \E overflow_checks \in BOOLEAN :
                result' = Table_read(expected, stream, overflow_checks)
          /\ aux' = [ schema |-> aux.schema, table |-> aux.table,
                      declared |-> aux.declared, expected |-> expected ]
    /\ pc' = "table_read_as"
    /\ UNCHANGED <<writer, calls, rowvals, stream, reader, reads>>

NextTableAs == TableWrite \/ TableReadAs

SpecTableAs == InitTable /\ [][NextTableAs]_vars

(***************************************************************************)
(* Reader::new on a table with any string pool and any table-name offset,  *)
(* and the read of a string reference stored in its row.                   *)
(***************************************************************************)
MaxStrings == 4

\* NUL, "B", "C" and a byte that no UTF-8 string holds
PoolBytes == {0, 66, 67, 255}
StringPools == SeqsUpTo(PoolBytes, MaxStrings)
StringOffsets == 0..(MaxStrings + 1)

InitPool ==
    /\ pc = "new"
    /\ \E pool \in StringPools, name \in StringOffsets, ref \in StringOffsets :
          /\ stream = TableBytes(<<>>, to_be_bytes(ref, 4), pool, <<>>, name)
          /\ aux = [pool |-> pool, name |-> name, ref |-> ref, overflow_checks |-> FALSE]
    /\ writer = NoWriter
    /\ calls = <<>>
    /\ rowvals = <<>>
    /\ reader = NoReader
    /\ result = NoResult
    /\ reads = <<>>

\* Reader::read_value::<String>(true) on the Reader that was constructed
ReadString ==
    /\ pc = "new_done"
    /\ result.ok
    /\ LET p == read_value(reader, TRUE, "STR") IN
          /\ reader' = p.r
          /\ result' = p.res
    /\ pc' = "string_read"
    /\ UNCHANGED <<writer, calls, rowvals, stream, reads, aux>>

NextPool == ReaderNewAny \/ ReadString

SpecPool == InitPool /\ [][NextPool]_vars

(***************************************************************************)
(* Pushes of columns whose value may fail to convert: the caller's value   *)
(* type has u8 as its primitive and a to_primitive that refuses some       *)
(* values.                                                                 *)
(***************************************************************************)
\* the values of the caller's type: one that converts, one that does not
UserValues == {TV(CallerType, 7), TV(CallerType, 200)}

\* Writer::push_constant_column with a value of the caller's type
PushConstantColumnUser ==
    /\ Writing
    /\ \E name \in Names, tv \in UserValues, overflow_checks \in BOOLEAN :
          LET p == push_constant_column_private(writer, name, tv.kind, <<tv>>,
                                                overflow_checks) IN
          /\ writer' = p.w
          /\ result' = IF p.ok THEN Ok("unit") ELSE Err(p.err)
          /\ calls' = Append(calls, Call("push_constant_column", name, tv.kind, tv))
    /\ UNCHANGED <<pc, rowvals, stream, reader, reads, aux>>

\* Writer::push_constant_column_opt with a value of the caller's type
PushConstantColumnOptUser ==
    /\ Writing
    /\ \E name \in Names, value \in {<<>>} \cup {<<tv>> : tv \in UserValues},
          overflow_checks \in BOOLEAN :
          LET p == push_constant_column_private(writer, name, CallerType, value,
                                                overflow_checks) IN
          /\ writer' = p.w
          /\ result' = IF p.ok THEN Ok("unit") ELSE Err(p.err)
          /\ calls' = Append(calls, Call("push_constant_column_opt", name, CallerType,
                                         value))
    /\ UNCHANGED <<pc, rowvals, stream, reader, reads, aux>>

NextPush ==
    \/ PushConstantColumn
    \/ PushConstantColumnUser
    \/ PushConstantColumnOptUser
    \/ PushRowedColumn
    \/ PushRowedColumnOpt
    \/ End

SpecPush == InitWriter /\ [][NextPush]_vars

(***************************************************************************)
\* "TAB ", "ITOC"
Prefixes == {<<84, 65, 66, 32>>, <<73, 84, 79, 67>>}
UnknownValues == {0, 258}

DemoSchema(columns) == [table_name |-> <<68, 101, 109, 111>>, columns |-> columns]

\* "Comment" and "Id"
CommentIdSchema ==
    DemoSchema(<< Column(<<67, 111, 109, 109, 101, 110, 116>>, "Constant", <<>>, "STR"),
                  Column(<<73, 100>>, "Rowed", <<>>, "U32") >>)

\* "Name" and "Data", both optional
NameDataSchema ==
    DemoSchema(<< Column(<<78, 97, 109, 101>>, "Rowed", <<TRUE>>, "STR"),
                  Column(<<68, 97, 116, 97>>, "Rowed", <<FALSE>>, "BLOB") >>)

\* "Data", a constant blob, and "Id"
DataIdSchema ==
    DemoSchema(<< Column(<<68, 97, 116, 97>>, "Constant", <<>>, "BLOB"),
                  Column(<<73, 100>>, "Rowed", <<>>, "U32") >>)

\* a table whose blob alone is longer than the first table buffer
LongDataTable ==
    [ constants |-> <<TV("BLOB", [i \in 1..(aligned_vec_empty_capacity + 1) |-> i % 256]),
                      <<>>>>,
      rows |-> <<<<<<>>, TV("U32", 1)>>>>,
      write_context |-> <<>> ]

PacketTables ==
    {<<CommentIdSchema, t>> : t \in TablesOf(CommentIdSchema)}
    \cup {<<DataIdSchema, LongDataTable>>}
    \cup {<<NameDataSchema, t>> : t \in {u \in TablesOf(NameDataSchema) : Len(u.rows) <= 1}}

InitPacket ==
    /\ pc = "packet"
    /\ \E st \in PacketTables, prefix \in Prefixes, unknown \in UnknownValues,
          encrypted \in BOOLEAN, feature \in CpuFeatures, fill \in UninitBytes,
          overflow_checks \in BOOLEAN :
          aux = [ schema |-> st[1],
                  packet |-> [ prefix |-> prefix, encrypted |-> encrypted,
                               unknown_value |-> unknown, table |-> st[2] ],
                  feature |-> feature, fill |-> fill, read_prefix |-> <<>>,
                  overflow_checks |-> overflow_checks ]
    /\ stream = <<>>
    /\ writer = NoWriter
    /\ calls = <<>>
    /\ rowvals = <<>>
    /\ reader = NoReader
    /\ result = NoResult
    /\ reads = <<>>

\* Packet::write_packet(sink)
WritePacket ==
    /\ pc = "packet"
    /\ \E realloc_align \in ReallocAlignments, fault \in BOOLEAN :
          LET w == write_packet(aux.packet, aux.schema, aux.feature, aux.fill,
                                realloc_align, fault, aux.overflow_checks) IN
          /\ stream' = stream \o w.out
          /\ result' = w.res
          /\ pc' = IF w.crashed THEN "crashed" ELSE "packet_written"
    /\ UNCHANGED <<writer, calls, rowvals, reader, reads, aux>>

\* Packet::read_packet(stream, prefix) on the bytes write_packet produced
ReadPacket ==
    /\ pc = "packet_written"
    /\ result.ok
    /\ \E prefix \in Prefixes, memory \in MemoryOutcomes :
          /\ result' = read_packet(stream, prefix, aux.schema, aux.feature, aux.fill,
                                      aux.overflow_checks, memory)
          /\ aux' = [aux EXCEPT !.read_prefix = prefix]
    /\ pc' = IF stopped(result') THEN "stopped" ELSE "packet_read"
    /\ UNCHANGED <<writer, calls, rowvals, stream, reader, reads>>

NextPacket == WritePacket \/ ReadPacket

SpecPacket == InitPacket /\ [][NextPacket]_vars

(***************************************************************************)
(* read_packet on any stream: a packet header with any prefix and declared *)
(* length, followed by a payload that is a table, an encrypted table, or   *)
(* one of them with a byte changed, the stream ending anywhere.            *)
(***************************************************************************)
\* the table "Demo" with the constant "Comment" and one row of "Id"
PayloadTable ==
    [ constants |-> <<TV("STR", <<104, 105>>), <<>>>>,
      rows |-> <<<<<<>>, TV("U32", 1)>>>>,
      write_context |-> <<>> ]

\* its bytes: two columns, far from the end of the u16 field count, so the
\* same bytes with and without overflow checks
PlainPayload == Table_write(CommentIdSchema, PayloadTable, FALSE).out

\* the payload as write_packet encrypts it
EncryptedPayload ==
    SubSeq(encrypt("none",
                   PlainPayload \o Zeroes(minimum_size(Len(PlainPayload)) - Len(PlainPayload)),
                   Len(PlainPayload), aligned_vec_full(Len(PlainPayload), <<0>>)),
           1, Len(PlainPayload))

\* s with the byte at index i (from 0) replaced by its complement
Corrupt(s, i) == [s EXCEPT ![i + 1] = 255 - @]

\* byte 0 and byte 3 belong to the magic or the guard, byte 11 to row_offset
Payloads ==
    { PlainPayload, EncryptedPayload,
      Corrupt(PlainPayload, 0), Corrupt(PlainPayload, 11),
      Corrupt(EncryptedPayload, 3), Corrupt(EncryptedPayload, 11) }

\* the declared payload lengths, for a payload of n bytes
DeclaredSizes(n) == {0, 31, 32, n, n + 1}

\* the table_size fields 2^40, 2^63 and 2^64 - 1
HugeSizes ==
    { <<0, 0, 0, 0, 0, 1, 0, 0>>, <<0, 0, 0, 0, 0, 0, 0, 128>>,
      <<255, 255, 255, 255, 255, 255, 255, 255>> }

\* the table_size field of the packet header
SizeFields(n) == {to_le_bytes(size, 8) : size \in DeclaredSizes(n)} \cup HugeSizes

\* the stream ends inside the packet header, or after the payload
StreamCuts(n) == {10, 16 + n}

InitPacketStream ==
    /\ pc = "packet_stream"
    /\ \E prefix \in Prefixes, unknown \in UnknownValues, payload \in Payloads,
          feature \in CpuFeatures, fill \in UninitBytes, overflow_checks \in BOOLEAN :
       \E size \in SizeFields(Len(payload)), cut \in StreamCuts(Len(payload)) :
          /\ stream = SubSeq(prefix \o to_le_bytes(unknown, 4) \o size \o payload, 1, cut)
          /\ aux = [ schema |-> CommentIdSchema, prefix |-> prefix,
                     unknown_value |-> unknown, size |-> size, payload |-> payload,
                     len |-> cut, feature |-> feature, fill |-> fill,
                     overflow_checks |-> overflow_checks,
                     read_prefix |-> <<>> ]
    /\ writer = NoWriter
    /\ calls = <<>>
    /\ rowvals = <<>>
    /\ reader = NoReader
    /\ result = NoResult
    /\ reads = <<>>

\* Packet::read_packet(stream, prefix) on that stream
ReadPacketAny ==
    /\ pc = "packet_stream"
    /\ \E prefix \in Prefixes, memory \in MemoryOutcomes :
          /\ result' = read_packet(stream, prefix, aux.schema, aux.feature, aux.fill,
                                      aux.overflow_checks, memory)
          /\ stream' = SubSeqFrom(stream, read_packet_consumed(stream, prefix, memory))
          /\ aux' = [aux EXCEPT !.read_prefix = prefix]
    /\ pc' = IF stopped(result') THEN "stopped" ELSE "packet_stream_read"
    /\ UNCHANGED <<writer, calls, rowvals, reader, reads>>

NextPacketStream == ReadPacketAny

SpecPacketStream == InitPacketStream /\ [][NextPacketStream]_vars

(***************************************************************************)
(* C1.  Round trip.                                                        *)
(***************************************************************************)
\* what the matching read of the i-th declaration has to return
ExpectedColumn(c) ==
    CASE c.op = "push_constant_column"     -> Ok(c.arg)
      [] c.op = "push_constant_column_opt" -> Ok(c.arg)
      [] c.op = "push_rowed_column"        -> Ok("unit")
      [] c.op = "push_rowed_column_opt"    -> Ok(c.arg)

ExpectedRead(i) ==
    IF i <= Len(calls) THEN ExpectedColumn(calls[i])
    ELSE Ok(rowvals[i - Len(calls)])

AllRead == pc = "reading" /\ Len(reads) = Len(calls) + Len(rowvals)

\* C1: Reader::new accepts the bytes that Writer::end emitted, the table
\* name and the number of columns are those of the writer, every matching
\* typed read returns the declared storage form and the value that was
\* pushed, in the same order, and after the last read no column or row data
\* is left.
C1_RoundTrip ==
    /\ pc # "failed"
    /\ pc = "reading" =>
          /\ table_name(reader) = aux.table_name
          /\ field_count(reader) = Len(calls)
          /\ \A i \in 1..Len(reads) : reads[i] = ExpectedRead(i)
    /\ AllRead => ~more_column_data(reader) /\ ~more_row_data(reader)

\* a table with an included optional rowed column and its row value has
\* been written and read back
C1_Witness ==
    /\ AllRead
    /\ \E i \in 1..Len(calls) :
          calls[i].op = "push_rowed_column_opt" /\ calls[i].arg = TRUE
    /\ Len(rowvals) >= 1

(***************************************************************************)
(* C3.  Blob references.                                                   *)
(***************************************************************************)
RefOffset(ref) == from_be_bytes(Slice(ref, 0, 4))
RefLength(ref) == from_be_bytes(Slice(ref, 4, 8))

\* res is what decoding the reference ref against the reader's pool must give
BlobDecoded(ref, res) ==
    IF RefOffset(ref) + RefLength(ref) > Len(reader.blobs)
    THEN res = Err(<<"DataNotFound">>)
    ELSE /\ res.ok
         /\ res.val.kind = "BLOB"
         /\ Len(res.val.val) = RefLength(ref)
         /\ \A i \in 1..RefLength(ref) :
               res.val.val[i] = reader.blobs[RefOffset(ref) + i]

ReadBuffer == IF aux.row THEN reader.row_buffer ELSE reader.column_buffer

\* the descriptor is a stored BLOB constant named "T"
BlobConstant ==
    /\ Len(reader.column_buffer) = 13
    /\ Slice(reader.column_buffer, 0, 5) = <<59, 0, 0, 0, 0>>

Unwrap(res) == IF res.ok /\ res.val # <<>> THEN Ok(res.val[1]) ELSE res

\* C3: a BLOB value, read from the row buffer, from the column buffer or as
\* the value of a constant column, is DataNotFound when offset + length
\* exceeds the length of the blob pool, and otherwise the length bytes of
\* the pool from offset on, a blob ending at the end of the pool included.
C3_BlobReference ==
    (pc = "read_done" /\ aux.kind = "BLOB") =>
        /\ (aux.op = "read_value" /\ Len(ReadBuffer) >= 8)
              => BlobDecoded(Slice(ReadBuffer, 0, 8), result)
        /\ (aux.op = "read_constant_column" /\ aux.name = <<84>> /\ BlobConstant)
              => BlobDecoded(Slice(reader.column_buffer, 5, 13), result)
        /\ (aux.op = "read_constant_column_opt" /\ aux.name = <<84>> /\ BlobConstant)
              => BlobDecoded(Slice(reader.column_buffer, 5, 13), Unwrap(result))

\* a blob that ends exactly at the end of the pool has been read from a row
C3_Witness ==
    /\ pc = "read_done"
    /\ aux.op = "read_value" /\ aux.kind = "BLOB" /\ aux.row
    /\ RefOffset(reader.row_buffer) > 0
    /\ RefLength(reader.row_buffer) > 0
    /\ RefOffset(reader.row_buffer) + RefLength(reader.row_buffer) = Len(reader.blobs)
    /\ result.ok

(***************************************************************************)
(* C4.  Column names.                                                      *)
(***************************************************************************)
ColumnReads ==
    {"read_constant_column", "read_constant_column_opt",
     "read_rowed_column", "read_rowed_column_opt"}

\* the descriptor holds a flag and a name offset that resolves
NamedDescriptor ==
    /\ Len(reader.column_buffer) >= 5
    /\ from_be_bytes(Slice(reader.column_buffer, 1, 5)) \in DOMAIN reader.strings

StoredName == reader.strings[from_be_bytes(Slice(reader.column_buffer, 1, 5))]

\* C4: each of the four column reads, on a descriptor whose name is not the
\* expected one, fails with WrongColumnName(stored name, expected name),
\* whatever the type and storage flags of the descriptor are.
C4_WrongColumnName ==
    (/\ pc = "read_done"
     /\ aux.op \in ColumnReads
     /\ NamedDescriptor
     /\ StoredName # aux.name)
        => result = Err(<<"WrongColumnName", StoredName, aux.name>>)

\* a read of an optional rowed column met another name on a descriptor whose
\* type and storage flags are both invalid
C4_Witness ==
    /\ pc = "read_done"
    /\ aux.op = "read_rowed_column_opt"
    /\ NamedDescriptor
    /\ StoredName # aux.name
    /\ ~is_valid_value_flag(reader.column_buffer[1] % 16)
    /\ ~is_valid_storage_flag(reader.column_buffer[1] - (reader.column_buffer[1] % 16))
    /\ result = Err(<<"WrongColumnName", StoredName, aux.name>>)

(***************************************************************************)
(* C11, C12.  The type and storage flags of a column descriptor.           *)
(***************************************************************************)
StoredType == reader.column_buffer[1] % 16
StoredStorage == reader.column_buffer[1] - StoredType

\* a column read has met a descriptor that carries the expected name
NameMatched ==
    /\ pc = "read_done"
    /\ aux.op \in ColumnReads
    /\ NamedDescriptor
    /\ StoredName = aux.name

\* the eleven tags of the value kinds
ValidTags == (0..8) \cup {10, 11}

\* C11: when the name matches and the type nibble is not the tag of the
\* expected kind, the read fails with WrongColumnType(nibble, expected tag)
\* if the nibble is one of the eleven tags and with InvalidColumnType(nibble)
\* if it is not, whatever the storage nibble is.
C11_TypeCheck ==
    (NameMatched /\ StoredType # TYPE_FLAG(PrimitiveOf(aux.kind))) =>
        result = IF StoredType \in ValidTags
                 THEN Err(<<"WrongColumnType", StoredType, TYPE_FLAG(PrimitiveOf(aux.kind))>>)
                 ELSE Err(<<"InvalidColumnType", StoredType>>)

\* a constant read met the nibble 9 on a descriptor whose storage nibble is
\* not a storage form either, and reported the type
C11_Witness ==
    /\ NameMatched
    /\ aux.op = "read_constant_column"
    /\ StoredType = 9
    /\ StoredStorage = 32
    /\ result = Err(<<"InvalidColumnType", 9>>)

TypeMatched == NameMatched /\ StoredType = TYPE_FLAG(PrimitiveOf(aux.kind))

ConstantReads == {"read_constant_column", "read_constant_column_opt"}
OptReads == {"read_constant_column_opt", "read_rowed_column_opt"}

\* the storage nibble a read asks for, and how the error spells it
WantedStorage == IF aux.op \in ConstantReads THEN 48 ELSE 80
WantedStorageText == IF aux.op \in ConstantReads THEN "0x30" ELSE "0x50"

\* C12: with name and type matching, a read succeeds only on its own storage
\* form (0x3 constant, 0x5 rowed) or, for the _opt reads, on Zero (0x1),
\* which gives None / false and consumes the five descriptor bytes only; a
\* rowed read of 0x5 succeeds; another of the three forms is
\* WrongColumnStorage and any other nibble InvalidColumnStorage.
C12_StorageCheck ==
    TypeMatched =>
        /\ result.ok =>
              \/ StoredStorage = WantedStorage
              \/ aux.op \in OptReads /\ StoredStorage = 16
        /\ (StoredStorage = 80 /\ aux.op = "read_rowed_column") => result = Ok("unit")
        /\ (StoredStorage = 80 /\ aux.op = "read_rowed_column_opt") => result = Ok(TRUE)
        /\ (StoredStorage = 16 /\ aux.op \in OptReads) =>
              /\ result = Ok(IF aux.op \in ConstantReads THEN <<>> ELSE FALSE)
              /\ reader.column_pos = 5
        /\ (/\ StoredStorage \in {16, 48, 80}
            /\ StoredStorage # WantedStorage
            /\ ~(aux.op \in OptReads /\ StoredStorage = 16)) =>
              result = Err(<<"WrongColumnStorage", StoredStorage, WantedStorageText>>)
        /\ StoredStorage \notin {16, 48, 80} =>
              result = Err(<<"InvalidColumnStorage", StoredStorage>>)

\* a non-optional constant read met a Zero column
C12_Witness ==
    /\ TypeMatched
    /\ StoredStorage = 16
    /\ aux.op = "read_constant_column"
    /\ result = Err(<<"WrongColumnStorage", 16, "0x30">>)

(***************************************************************************)
(* C13.  Reads past the end of a region.                                   *)
(***************************************************************************)
EOFReading(kind) == Err(<<"EOF", "reading " \o type_name(kind) \o " value">>)

\* C13: a read that needs more bytes than its buffer holds fails with EOF
\* naming the primitive being read: the flag byte and the name offset of a
\* descriptor, the value of a stored constant, a value read directly from
\* the column or the row buffer.
C13_ShortRead ==
    pc = "read_done" =>
        /\ (aux.op = "read_value" /\ Len(ReadBuffer) < SIZE_IN_UTF(PrimitiveOf(aux.kind)))
              => result = EOFReading(PrimitiveOf(aux.kind))
        /\ (aux.op \in ColumnReads /\ Len(reader.column_buffer) < 1)
              => result = EOFReading("U8")
        /\ (aux.op \in ColumnReads /\ Len(reader.column_buffer) \in 1..4)
              => result = EOFReading("STR")
        /\ (/\ aux.op \in ConstantReads
            /\ TypeMatched
            /\ StoredStorage = 48
            /\ Len(reader.column_buffer) - 5 < SIZE_IN_UTF(PrimitiveOf(aux.kind)))
              => result = EOFReading(PrimitiveOf(aux.kind))

\* a u32 was asked of a row buffer of three bytes
C13_Witness ==
    /\ pc = "read_done"
    /\ aux.op = "read_value" /\ aux.row /\ aux.kind = "U32"
    /\ Len(reader.row_buffer) = 3
    /\ result = Err(<<"EOF", "reading u32 value">>)

(***************************************************************************)
(* C14, C15.  read_packet on any stream.                                   *)
(***************************************************************************)
\* read_packet has returned on a stream that held the 16 header bytes
HeaderRead == pc = "packet_stream_read" /\ aux.len >= 16

\* the bytes of the stream that read_packet has taken
Taken == aux.len - Len(stream)

\* the declared payload length is below 2^31, and its value
DeclaredSmall == declared_size_class(aux.size) = "small"
Declared == from_le_bytes(aux.size)

\* C14: read_packet returns WrongTableSchema when the first four bytes of
\* the stream are not the caller's prefix, and MalformedHeader when they are
\* and the declared payload length is below 32; in both cases it has taken
\* the 16 header bytes from the stream and no more.
C14_PacketHeader ==
    HeaderRead =>
        /\ aux.read_prefix # aux.prefix =>
              result = Err(<<"WrongTableSchema">>) /\ Taken = 16
        /\ (aux.read_prefix = aux.prefix /\ DeclaredSmall /\ Declared < 32) =>
              result = Err(<<"MalformedHeader">>) /\ Taken = 16

\* a declared length of 31 was refused with the payload still in the stream
C14_Witness ==
    /\ HeaderRead
    /\ aux.read_prefix = aux.prefix
    /\ DeclaredSmall /\ Declared = 31
    /\ result = Err(<<"MalformedHeader">>)
    /\ Len(stream) = Len(aux.payload)
    /\ Len(stream) > 0

\* read_packet has read a whole payload of the declared length
PayloadRead ==
    /\ HeaderRead
    /\ aux.read_prefix = aux.prefix
    /\ DeclaredSmall
    /\ Declared >= 32
    /\ Declared <= Len(aux.payload)

\* the result of read_packet is what the table reader makes of data, as a
\* packet with the given encryption state
PacketOf(data, encrypted) ==
    LET t == Table_read(aux.schema, data, aux.overflow_checks) IN
    IF t.ok
    THEN result = Ok([ prefix |-> aux.prefix, encrypted |-> encrypted,
                       unknown_value |-> aux.unknown_value, table |-> t.val ])
    ELSE result = t

\* the reference cipher: dst[i] = src[i] ^ mask[i mod 64] for i < n
XorMask(src, n) == [i \in 1..n |-> BitXor(src[i], DECRYPTION_MASK[((i - 1) % 64) + 1])]

\* C15: a payload that starts with "@UTF" is handed to the table reader as
\* it is and the packet is not encrypted; any other payload is refused with
\* DecryptionError unless it starts with the bytes 1F 9E F3 F5, and then the
\* table reader gets the whole payload xor the mask and the packet is
\* encrypted.
C15_PayloadKind ==
    PayloadRead =>
        IF Slice(aux.payload, 0, 4) = <<64, 85, 84, 70>>
        THEN PacketOf(SubSeq(aux.payload, 1, Declared), FALSE)
        ELSE IF Slice(aux.payload, 0, 4) # <<31, 158, 243, 245>>
        THEN result = Err(<<"DecryptionError">>)
        ELSE PacketOf(XorMask(aux.payload, Declared), TRUE)

\* an encrypted table was read as an encrypted packet
C15_Witness ==
    /\ PayloadRead
    /\ Declared = Len(aux.payload)
    /\ aux.payload = EncryptedPayload
    /\ Slice(aux.payload, 0, 4) = <<31, 158, 243, 245>>
    /\ result.ok
    /\ result.val.encrypted
    /\ result.val.table.rows = PayloadTable.rows

(***************************************************************************)
(* C5, C6.  The cipher.                                                    *)
(***************************************************************************)
\* C5: decrypting, and encrypting again, what encrypt produced gives back
\* the first len bytes of the original buffer, for every length.
C5_SelfInverse ==
    pc \in {"decrypted", "encrypted_twice"} =>
        SubSeq(aux.out, 1, aux.len) = SubSeq(aux.src, 1, aux.len)

\* a buffer whose length is no multiple of 8 and that is longer than the
\* mask has gone through encrypt and decrypt on the 32-byte path
C5_Witness ==
    /\ pc = "decrypted"
    /\ aux.feature = "avx2"
    /\ aux.len > 64 /\ aux.len % 8 # 0
    /\ SubSeq(aux.out, 1, aux.len) = SubSeq(aux.src, 1, aux.len)
    /\ SubSeq(aux.enc, 1, aux.len) # SubSeq(aux.src, 1, aux.len)

\* the reference cipher: dst[i] = src[i] ^ mask[i mod 64] for i < n
Reference(src, n) == [i \in 1..n |-> BitXor(src[i], DECRYPTION_MASK[((i - 1) % 64) + 1])]

\* C6: on every path, the word fallback and the three vector widths, the
\* first n bytes of the output are the reference cipher of the input.
C6_PathsAgree ==
    /\ pc = "encrypted" => SubSeq(aux.enc, 1, aux.len) = Reference(aux.src, aux.len)
    /\ pc \in {"decrypted", "encrypted_twice"} =>
          SubSeq(aux.out, 1, aux.len) = Reference(aux.enc, aux.len)

\* a 65-byte buffer has been encrypted on the 16-byte path
C6_Witness ==
    /\ pc = "encrypted"
    /\ aux.feature = "sse2"
    /\ aux.len = 65
    /\ SubSeq(aux.enc, 1, aux.len) = Reference(aux.src, aux.len)

(***************************************************************************)
(* C7.  Encrypted packets.                                                 *)
(***************************************************************************)
\* the packet read back from the same packet written without encryption
PlainPacket ==
    read_packet(write_packet(disable_encryption(aux.packet), aux.schema,
                             aux.feature, aux.fill, 64, FALSE, aux.overflow_checks).out,
                aux.packet.prefix, aux.schema, aux.feature, aux.fill,
                aux.overflow_checks, "granted")

\* C7: a packet with encryption enabled is written by write_packet and read
\* back by read_packet, with the same prefix, as an encrypted packet with
\* the same unknown value and the table that the unencrypted packet gives,
\* which reads back as not encrypted.
C7_EncryptedPacket ==
    (is_encrypted(aux.packet) /\ PlainPacket.ok) =>
        /\ pc # "crashed"
        /\ pc = "packet_written" => result.ok
        /\ (pc = "packet_read" /\ aux.read_prefix = aux.packet.prefix) =>
              /\ result.ok
              /\ is_encrypted(result.val)
              /\ result.val.unknown_value = aux.packet.unknown_value
              /\ result.val.table = PlainPacket.val.table
              /\ ~is_encrypted(PlainPacket.val)

\* the same, as long as the table buffer has not moved
C7_EncryptedPacketSmall ==
    Len(Table_write(aux.schema, aux.packet.table, aux.overflow_checks).out) <= aligned_vec_empty_capacity
        => C7_EncryptedPacket

(***************************************************************************)
(* C8, C9.  The generated Table::write.                                    *)
(***************************************************************************)
Present(row, i) == row[i] # <<>>

\* the (row, column) pairs whose presence differs from that of row 0
Conflicts ==
    { p \in (1..Len(aux.table.rows)) \X DOMAIN aux.schema.columns :
        /\ Rowed(aux.schema.columns[p[2]])
        /\ Optional(aux.schema.columns[p[2]])
        /\ Present(aux.table.rows[p[1]], p[2]) # Present(aux.table.rows[1], p[2]) }

\* the first of them in the order the rows are written
FirstConflict ==
    CHOOSE p \in Conflicts :
        \A q \in Conflicts : p[1] < q[1] \/ (p[1] = q[1] /\ p[2] <= q[2])

\* C8: when a row of an optional rowed column is Some where row 0 is None,
\* or None where row 0 is Some, Table::write fails with
\* OptionalColumnConflict naming the column of the first such field, and
\* the sink has received no byte.
C8_OptionalColumnConflict ==
    (pc = "table_written" /\ Conflicts # {}) =>
        /\ result = Err(<<"OptionalColumnConflict",
                          aux.schema.columns[FirstConflict[2]].name>>)
        /\ stream = <<>>

\* row 0 holds a value, a later row holds none, and the write was refused
C8_Witness ==
    /\ pc = "table_written"
    /\ \E p \in Conflicts : Present(aux.table.rows[1], p[2])
    /\ ~result.ok
    /\ result.err[1] = "OptionalColumnConflict"
    /\ stream = <<>>

KindOfFlag(type_flag) == CHOOSE k \in ValueKind : TYPE_FLAG(k) = type_flag

\* the widths of the columns that the descriptors from pos on store as Rowed
RECURSIVE stored_row_width(_, _)
stored_row_width(column_data, pos) ==
    IF pos >= Len(column_data) THEN 0
    ELSE LET flag    == column_data[pos + 1]
             storage == flag - (flag % 16)
             size    == SIZE_IN_UTF(KindOfFlag(flag % 16))
         IN  (IF storage = 80 THEN size ELSE 0)
             + stored_row_width(column_data, pos + 5 + (IF storage = 48 THEN size ELSE 0))

\* C9: for a table without such a conflict Table::write succeeds; the
\* row_size it declares to end, and that the header carries, is the sum of
\* the widths of the columns whose descriptor says Rowed, the row_count is
\* the number of rows, and the row buffer holds row_size * row_count bytes.
C9_DeclaredGeometry ==
    (pc = "table_written" /\ Conflicts = {}) =>
        /\ result = Ok("unit")
        /\ aux.declared = <<stored_row_width(writer.column_data, 0),
                            IF has_row(aux.schema) THEN Len(aux.table.rows) ELSE 0>>
        /\ Len(writer.row_data) = aux.declared[1] * aux.declared[2]
        /\ from_be_bytes(Slice(stream, 26, 28)) = aux.declared[1]
        /\ from_be_bytes(Slice(stream, 28, 32)) = aux.declared[2]

\* the table "Demo" with the constant "Comment" and three rows of "Id"
C9_Witness ==
    /\ pc = "table_written"
    /\ Len(aux.schema.columns) = 2
    /\ aux.schema.columns[1].name = <<67, 111, 109, 109, 101, 110, 116>>
    /\ aux.schema.columns[2].name = <<73, 100>>
    /\ Len(aux.table.rows) = 3
    /\ aux.declared = <<4, 3>>
    /\ result.ok

(***************************************************************************)
(* C10.  Writer::end and the declared row geometry.                        *)
(***************************************************************************)
EndReturned == pc = "writing" /\ pc' \in {"ended", "end_failed"}

\* C10: Writer::end returns MalformedHeader exactly when the length of the
\* accumulated row buffer differs from row_size * row_count; it then writes
\* nothing to the sink and leaves the writer's buffers as they were, and
\* otherwise it succeeds.
C10_EndMalformedHeader ==
    [][ EndReturned =>
          /\ (result' = Err(<<"MalformedHeader">>))
                <=> (Len(writer.row_data) # aux'.row_size * aux'.row_count)
          /\ ~result'.ok => result' = Err(<<"MalformedHeader">>)
                            /\ stream' = stream /\ writer' = writer
          /\ result'.ok => stream' # stream ]_vars

\* end was refused for a writer that holds row data
C10_Witness ==
    /\ pc = "end_failed"
    /\ Len(writer.row_data) > 0
    /\ aux.row_size * aux.row_count > 0
    /\ stream = <<>>

(***************************************************************************)
(* C16, C17.  The header that Writer::end emits.                           *)
(***************************************************************************)
\* the fields of the emitted header
EmittedTableSize == from_be_bytes(Slice(stream, 4, 8))
EmittedRowOffset == from_be_bytes(Slice(stream, 8, 12))
EmittedStringOffset == from_be_bytes(Slice(stream, 12, 16))
EmittedBlobOffset == from_be_bytes(Slice(stream, 16, 20))
EmittedRowSize == from_be_bytes(Slice(stream, 26, 28))
EmittedRowCount == from_be_bytes(Slice(stream, 28, 32))

\* C16: after a successful end the header carries row_offset = 24 + the
\* length of the column buffer, string_offset = row_offset + the length of
\* the row buffer and table_size = blob_offset + the length of the blob
\* buffer; the sink has received 8 + table_size bytes, and the header passes
\* the reader's test: 24 <= row_offset <= string_offset <= blob_offset <=
\* table_size and row_size * row_count = string_offset - row_offset.
C16_EndLayout ==
    pc = "ended" =>
        /\ EmittedRowOffset = 24 + Len(writer.column_data)
        /\ EmittedStringOffset = EmittedRowOffset + Len(writer.row_data)
        /\ EmittedTableSize = EmittedBlobOffset + Len(writer.blobs)
        /\ Len(stream) = 8 + EmittedTableSize
        /\ 24 <= EmittedRowOffset
        /\ EmittedRowOffset <= EmittedStringOffset
        /\ EmittedStringOffset <= EmittedBlobOffset
        /\ EmittedBlobOffset <= EmittedTableSize
        /\ EmittedRowSize * EmittedRowCount = EmittedStringOffset - EmittedRowOffset

\* a table with column, row and blob data has been emitted
C16_Witness ==
    /\ pc = "ended"
    /\ Len(writer.column_data) > 0
    /\ Len(writer.row_data) > 0
    /\ Len(writer.blobs) > 0
    /\ Len(stream) = 8 + EmittedTableSize

\* the end of the string pool, before any padding
UnpaddedBlobOffset == EmittedStringOffset + Len(writer.string_data)

\* C17: blob_offset is the least multiple of 8 that is not below
\* string_offset + the length of the string buffer, and the bytes between
\* the string pool and the blob pool are that many (0 to 7) zero bytes.
C17_BlobPadding ==
    pc = "ended" =>
        /\ EmittedBlobOffset % 8 = 0
        /\ EmittedBlobOffset >= UnpaddedBlobOffset
        /\ EmittedBlobOffset - UnpaddedBlobOffset < 8
        /\ Len(stream) = 8 + EmittedBlobOffset + Len(writer.blobs)
        /\ \A i \in (8 + UnpaddedBlobOffset + 1)..(8 + EmittedBlobOffset) : stream[i] = 0

\* the same, for a string pool that does not end on a multiple of 8
C17_BlobPaddingUnaligned ==
    (pc = "ended" /\ UnpaddedBlobOffset % 8 # 0) => C17_BlobPadding

(***************************************************************************)
(* C18.  The string pool and the blob pool of a Writer.                    *)
(***************************************************************************)
\* the string s stands at offset off of the buffer, followed by a NUL
StandsAt(buffer, s, off) ==
    /\ off + Len(s) < Len(buffer)
    /\ Slice(buffer, off, off + Len(s)) = s
    /\ buffer[off + Len(s) + 1] = 0

PoolConsistent ==
    pc = "writing" =>
        /\ \A s \in DOMAIN writer.strings :
              StandsAt(writer.string_data, s, writer.strings[s])
        /\ StandsAt(writer.string_data, NULL_STR, 0)
        /\ StandsAt(writer.string_data, aux.table_name, 7)

\* the string s was written with this step and off is the offset stored
StringWritten(s, off) ==
    IF s \in DOMAIN writer.strings
    THEN /\ off = writer.strings[s]
         /\ writer'.string_data = writer.string_data
    ELSE /\ off = Len(writer.string_data)
         /\ writer'.string_data = writer.string_data \o s \o <<0>>

\* this step has written a row value
RowValueWritten == pc = "writing" /\ Len(rowvals') = Len(rowvals) + 1
WrittenValue == rowvals'[Len(rowvals')]

\* this step has declared a Zero or Rowed column: its descriptor is the
\* flag byte and the offset of the name
ColumnDeclared ==
    /\ pc = "writing"
    /\ Len(calls') = Len(calls) + 1
    /\ Len(writer'.column_data) = Len(writer.column_data) + 5

\* C18: every entry of the dedup map points at its string, NUL-terminated,
\* in the string buffer, <NULL> standing at 0 and the table name at 7; a
\* string that is in the map is written as its offset there and leaves the
\* buffer as it was, a new string is appended with a NUL and written as the
\* offset of its first byte; a blob is always appended to the blob pool.
C18_Pools ==
    /\ []PoolConsistent
    /\ [][ /\ (RowValueWritten /\ WrittenValue.kind = "STR") =>
                StringWritten(WrittenValue.val,
                              from_be_bytes(SubSeqFrom(writer'.row_data,
                                                       Len(writer.row_data))))
           /\ (RowValueWritten /\ WrittenValue.kind = "BLOB") =>
                writer'.blobs = writer.blobs \o WrittenValue.val
           /\ ColumnDeclared =>
                StringWritten(calls'[Len(calls')].name,
                              from_be_bytes(SubSeqFrom(writer'.column_data,
                                                       Len(writer.column_data) + 1)))
         ]_vars

\* the same string was written twice and stands once in the buffer, after
\* the two seeded strings
C18_Witness ==
    /\ pc = "writing"
    /\ Len(rowvals) = 2
    /\ rowvals[1] = rowvals[2]
    /\ rowvals[1].kind = "STR"
    /\ writer.row_data = to_be_bytes(9, 4) \o to_be_bytes(9, 4)
    /\ Len(writer.string_data) = 9 + Len(rowvals[1].val) + 1

(***************************************************************************)
(* C19.  The schema of an emitted table.                                   *)
(***************************************************************************)
\* the storage form a push declares
PushedStorage(c) ==
    CASE c.op = "push_constant_column"     -> "Constant"
      [] c.op = "push_constant_column_opt" -> IF c.arg # <<>> THEN "Constant" ELSE "Zero"
      [] c.op = "push_rowed_column"        -> "Rowed"
      [] c.op = "push_rowed_column_opt"    -> IF c.arg THEN "Rowed" ELSE "Zero"

\* the high nibble of the flag of a storage form
StorageNibble(storage) ==
    CASE storage = "Zero" -> 1 [] storage = "Constant" -> 3 [] storage = "Rowed" -> 5

\* the column bytes of one descriptor: 5, and the width of the kind for a
\* Constant column only
DescriptorBytes(c) ==
    5 + (IF PushedStorage(c) = "Constant"
         THEN CASE c.kind \in {"U8", "I8"} -> 1
                [] c.kind \in {"U16", "I16"} -> 2
                [] c.kind \in {"U32", "I32", "F32", "STR"} -> 4
                [] c.kind \in {"U64", "I64", "BLOB"} -> 8
         ELSE 0)

\* the readers of Schema::read: r, and r after each of n calls of get_column
RECURSIVE ReadersFrom(_, _)
ReadersFrom(r, n) ==
    IF n = 0 THEN <<r>> ELSE <<r>> \o ReadersFrom(get_column(r).r, n - 1)

\* C19: Schema::read of the bytes that Writer::end emitted succeeds and
\* returns the table name of the writer and exactly the pushed columns, in
\* push order, each with its name, its storage form (flag high nibble 1 Zero,
\* 3 Constant, 5 Rowed) and its value kind, whatever the rows and blobs are;
\* each get_column consumes 5 column bytes plus, for Constant storage only,
\* the width of the kind, and the row cursor stays at 0.
C19_SchemaRead ==
    /\ pc # "failed"
    /\ pc = "schema_read" =>
          /\ result.ok
          /\ result.val.table_name = aux.table_name
          /\ Len(result.val.columns) = Len(calls)
          /\ \A i \in 1..Len(calls) :
                /\ result.val.columns[i] =
                      SchemaColumn(calls[i].name, PushedStorage(calls[i]), calls[i].kind)
                /\ has_column(result.val, calls[i].name)
          /\ LET stepped(rs) ==
                    /\ \A i \in 1..Len(calls) :
                          /\ rs[i].column_buffer[rs[i].column_pos + 1] \div 16
                                = StorageNibble(PushedStorage(calls[i]))
                          /\ rs[i + 1].column_pos - rs[i].column_pos
                                = DescriptorBytes(calls[i])
                          /\ rs[i + 1].row_pos = 0
                    /\ reader = rs[Len(calls) + 1]
             IN  \A r \in {Reader_new(stream, overflow_checks).r :
                            overflow_checks \in BOOLEAN} :
                    stepped(ReadersFrom(r, Len(calls)))
          /\ reader.row_pos = 0
          /\ ~more_column_data(reader)

\* the schema of a table with a blob constant followed by an absent optional
\* rowed column has been read
C19_Witness ==
    /\ pc = "schema_read"
    /\ Len(calls) = 2
    /\ calls[1].op = "push_constant_column" /\ calls[1].kind = "BLOB"
    /\ calls[2].op = "push_rowed_column_opt" /\ calls[2].arg = FALSE
    /\ result.val.columns[1].storage_format = "Constant"
    /\ result.val.columns[2].storage_format = "Zero"
    /\ reader.column_pos = 18

\* the schema of a table with one rowed string column and a row value, whose
\* row buffer is not empty, has been read
C19_WitnessRows ==
    /\ pc = "schema_read"
    /\ Len(calls) = 1 /\ Len(rowvals) = 1
    /\ calls[1].op = "push_rowed_column"
    /\ Len(reader.row_buffer) > 0
    /\ reader.row_pos = 0

(***************************************************************************)
(* C20.  The width of a value in the column or row buffer.                 *)
(***************************************************************************)
\* the on-disk width of the primitive of a kind
Width(kind) ==
    CASE kind \in {"U8", "I8"} -> 1
      [] kind \in {"U16", "I16"} -> 2
      [] kind \in {"U32", "I32", "F32", "STR"} -> 4
      [] kind \in {"U64", "I64", "BLOB"} -> 8

\* utf_size_of of every type, the wrappers of a primitive included, is the
\* width of its primitive
WidthTable == \A T \in ValueTypes : utf_size_of(T) = Width(PrimitiveOf(T))

\* a step of write_value, and the value it was called with
ValueWritten == pc = "writing" /\ Len(rowvals') = Len(rowvals) + 1
LastWritten == rowvals'[Len(rowvals')]

\* a step of read_value, and the type it was called with
ValueRead == pc = "reading" /\ Len(reads') = Len(reads) + 1
LastRead == reads'[Len(reads')]
BytesLeft(row) ==
    IF row THEN Len(reader.row_buffer) - reader.row_pos
    ELSE Len(reader.column_buffer) - reader.column_pos

\* the step appended n bytes to the selected buffer of the writer and left
\* what the two buffers held
Appended(rowed, n) ==
    /\ Len(writer'.row_data) = Len(writer.row_data) + (IF rowed THEN n ELSE 0)
    /\ Len(writer'.column_data) = Len(writer.column_data) + (IF rowed THEN 0 ELSE n)
    /\ SubSeq(writer'.row_data, 1, Len(writer.row_data)) = writer.row_data
    /\ SubSeq(writer'.column_data, 1, Len(writer.column_data)) = writer.column_data

\* the step moved the cursor of the selected buffer of the reader by n bytes
\* and left the other cursor and the two buffers
Consumed(row, n) ==
    /\ reader'.row_pos = reader.row_pos + (IF row THEN n ELSE 0)
    /\ reader'.column_pos = reader.column_pos + (IF row THEN 0 ELSE n)
    /\ reader'.row_buffer = reader.row_buffer
    /\ reader'.column_buffer = reader.column_buffer

\* the type's to_primitive refuses the value
Refused(tv) == ~to_primitive(tv).ok

\* C20 as the claim words it: utf_size_of of a type is the width of its
\* primitive, and every write_value appends to, and every read_value
\* consumes from, the selected buffer exactly that many bytes, whatever the
\* value.
C20_AsClaimed ==
    /\ []WidthTable
    /\ [][ /\ ValueWritten =>
                Appended(LastWritten.rowed, utf_size_of(LastWritten.value.kind))
           /\ ValueRead => Consumed(LastRead.row, utf_size_of(LastRead.kind))
         ]_vars

\* C20: utf_size_of of a type is the width of its primitive, 1 for u8 and i8,
\* 2 for u16 and i16, 4 for u32, i32, f32 and strings, 8 for u64, i64 and
\* blobs, a wrapper type having the width of its primitive.  A write_value
\* whose value converts to its primitive succeeds and appends exactly that
\* many bytes to the selected buffer and none to the other; one whose value
\* does not convert returns ValueConversion and appends nothing.  A
\* read_value that finds at least that many bytes left in the selected
\* buffer moves the cursor of that buffer by exactly that many bytes and
\* leaves the other cursor, whether it returns the value, DataNotFound or
\* ValueConversion; one that finds fewer returns EOF and leaves the cursor
\* at the end of the buffer.
C20_Width ==
    /\ []WidthTable
    /\ [][ /\ (ValueWritten /\ ~Refused(LastWritten.value)) =>
                /\ result'.ok
                /\ Appended(LastWritten.rowed, Width(PrimitiveOf(LastWritten.value.kind)))
           /\ (ValueWritten /\ Refused(LastWritten.value)) =>
                /\ ~result'.ok
                /\ result'.err[1] = "ValueConversion"
                /\ Appended(LastWritten.rowed, 0)
           /\ (ValueRead /\ BytesLeft(LastRead.row) >= Width(PrimitiveOf(LastRead.kind))) =>
                /\ Consumed(LastRead.row, Width(PrimitiveOf(LastRead.kind)))
                /\ ~result'.ok => result'.err[1] \in {"DataNotFound", "ValueConversion"}
           /\ (ValueRead /\ BytesLeft(LastRead.row) < Width(PrimitiveOf(LastRead.kind))) =>
                /\ ~result'.ok
                /\ result'.err[1] = "EOF"
                /\ Consumed(LastRead.row, BytesLeft(LastRead.row))
         ]_vars

\* a string and a blob were written to the row buffer of a table, and the
\* string has been read back from it: the row cursor stands after its 4 bytes
\* of the 12
C20_Witness ==
    /\ pc = "reading"
    /\ Len(rowvals) = 2 /\ Len(reads) = 1
    /\ rowvals[1] = [rowed |-> TRUE, value |-> TV("STR", <<66, 67>>), ok |-> TRUE]
    /\ rowvals[2] = [rowed |-> TRUE, value |-> TV("BLOB", <<1, 2>>), ok |-> TRUE]
    /\ reads[1] = [row |-> TRUE, kind |-> "STR", res |-> Ok(TV("STR", <<66, 67>>))]
    /\ Len(reader.row_buffer) = 12
    /\ reader.row_pos = 4

\* a u32 that is no offset of the string pool was read as a string: the read
\* failed and the cursor moved by 4
C20_WitnessNotFound ==
    /\ pc = "reading"
    /\ Len(reads) = 1
    /\ reads[1] = [row |-> FALSE, kind |-> "STR", res |-> Err(<<"DataNotFound">>)]
    /\ reader.column_pos = 4

\* an array was written to the column buffer as the 8 bytes of a blob
\* reference and read back, and the read of a second one found no bytes left
C20_WitnessWrapper ==
    /\ pc = "reading"
    /\ Len(rowvals) = 1 /\ Len(reads) = 2
    /\ rowvals[1] = [rowed |-> FALSE, value |-> TV(ArrayType, <<1, 2>>), ok |-> TRUE]
    /\ Len(reader.column_buffer) = 8
    /\ reads[1] = [row |-> FALSE, kind |-> ArrayType, res |-> Ok(TV(ArrayType, <<1, 2>>))]
    /\ reads[2].kind = ArrayType /\ ~reads[2].row
    /\ reads[2].res = Err(<<"EOF", "reading [u8] value">>)
    /\ reader.column_pos = 8

\* a value of the caller's type was refused by its to_primitive after a u16
\* had been written to the row buffer, which still holds the 2 bytes
C20_WitnessRefused ==
    /\ pc = "writing"
    /\ Len(rowvals) = 2
    /\ rowvals[1] = [rowed |-> TRUE, value |-> TV("U16", 513), ok |-> TRUE]
    /\ rowvals[2] = [rowed |-> TRUE, value |-> TV(CallerType, 200), ok |-> FALSE]
    /\ result = Err(<<"ValueConversion", "Ascii", "u8", "conversion">>)
    /\ writer.row_data = <<2, 1>>
    /\ writer.column_data = <<>>

(***************************************************************************)
(* C21.  The envelope of a packet.                                         *)
(***************************************************************************)
\* the number whose four bytes, least significant first, are b
LittleEndian(b) == b[1] + 256 * b[2] + 65536 * b[3] + 16777216 * b[4]

\* bytes out is a packet of a table: prefix, unknown value, the length of
\* the rest, and as many bytes as the table serializes to
Envelope(out, packet) ==
    /\ Len(out) >= 16
    /\ Slice(out, 0, 4) = packet.prefix
    /\ LittleEndian(Slice(out, 4, 8)) = packet.unknown_value
    /\ LittleEndian(Slice(out, 8, 12)) = Len(out) - 16
    /\ Slice(out, 12, 16) = <<0, 0, 0, 0>>
    /\ Len(out) - 16 = Len(Table_write(aux.schema, packet.table, aux.overflow_checks).out)

\* what write_packet writes for the packet that read_packet returned
Rewritten == write_packet(result.val, aux.schema, aux.feature, aux.fill, 64, FALSE, aux.overflow_checks)

\* C21: what write_packet emits is the 4-byte prefix, the unknown value as a
\* little-endian u32, the length of the serialized table as a little-endian
\* u64 and exactly that many payload bytes; read_packet decodes the two
\* fields little-endian, so the packet it returns carries the unknown value
\* that was written and is written back with the same four bytes and with
\* the length of its own table.
C21_Envelope ==
    /\ (pc = "packet_written" /\ result.ok) => Envelope(stream, aux.packet)
    /\ (pc = "packet_read" /\ result.ok) =>
          /\ result.val.unknown_value = LittleEndian(Slice(stream, 4, 8))
          /\ result.val.unknown_value = aux.packet.unknown_value
          /\ Rewritten.res.ok
          /\ Envelope(Rewritten.out, result.val)
          /\ Slice(Rewritten.out, 4, 8) = Slice(stream, 4, 8)

\* a packet with the unknown value 258 was written as 02 01 00 00 and has
\* been read back
C21_Witness ==
    /\ pc = "packet_read"
    /\ result.ok
    /\ aux.packet.unknown_value = 258
    /\ Slice(stream, 4, 8) = <<2, 1, 0, 0>>
    /\ result.val.unknown_value = 258
    /\ Len(stream) > 48

(***************************************************************************)
(* C22.  The storage form of an optional rowed column.                     *)
(***************************************************************************)
OptionalRowed(i) == Rowed(aux.schema.columns[i]) /\ Optional(aux.schema.columns[i])

\* the storage form the context of the table stands for: the form the column
\* had when the table was read, the default of the schema for a table made
\* by new(), Rowed for a name that was never recorded
RecordedForm(i) ==
    CASE aux.origin = "read"  -> aux.forms[i]
      [] aux.origin = "new"   -> IF aux.schema.columns[i].optional[1] THEN "Rowed" ELSE "Zero"
      [] aux.origin = "built" -> "Rowed"

TableWritten == pc = "table_written" /\ result.ok

\* C22: Table::write stores an optional rowed column of a table without rows
\* with the storage form its WriteContext records, which is the form the
\* column had when the table was read, the default of the schema (Zero
\* unless declared include) for a table made by new(), and Rowed for a name
\* the context has no record of; for a table with rows the form is Rowed
\* exactly when row 0 holds a value.
C22_ContextForm ==
    /\ pc # "failed"
    /\ TableWritten =>
       \A overflow_checks \in BOOLEAN :
          /\ Len(StoredForms(stream, overflow_checks)) = Len(aux.schema.columns)
          /\ \A i \in DOMAIN aux.schema.columns :
                OptionalRowed(i) =>
                    StoredForms(stream, overflow_checks)[i] =
                        IF aux.table.rows = <<>> THEN RecordedForm(i)
                        ELSE IF aux.table.rows[1][i] # <<>> THEN "Rowed" ELSE "Zero"

\* no two optional rowed columns of the schema share a name
DistinctNames ==
    \A i, j \in DOMAIN aux.schema.columns :
        (OptionalRowed(i) /\ OptionalRowed(j) /\ i # j)
            => aux.schema.columns[i].name # aux.schema.columns[j].name

\* the same, for a schema whose optional rowed columns have names of their
\* own
C22_ContextFormDistinct == DistinctNames => C22_ContextForm

\* the column "Name", optional and included by default, of a table that was
\* read with the column absent and then emptied of its row is written as
\* Zero
C22_Witness ==
    /\ TableWritten
    /\ DistinctNames
    /\ aux.origin = "read"
    /\ aux.steps = 5
    /\ aux.table.rows = <<>>
    /\ \E i \in DOMAIN aux.schema.columns :
          /\ OptionalRowed(i)
          /\ aux.schema.columns[i].optional[1]
          /\ aux.forms[i] = "Zero"
          /\ \A overflow_checks \in BOOLEAN :
                StoredForms(stream, overflow_checks)[i] = "Zero"

\* the column "Data", optional and left out by default, of a table built on
\* an empty context is written as Rowed
C22_WitnessBuilt ==
    /\ TableWritten
    /\ aux.origin = "built"
    /\ aux.table.rows = <<>>
    /\ \E i \in DOMAIN aux.schema.columns :
          /\ OptionalRowed(i)
          /\ ~aux.schema.columns[i].optional[1]
          /\ \A overflow_checks \in BOOLEAN :
                StoredForms(stream, overflow_checks)[i] = "Rowed"

(***************************************************************************)
(* C23.  The schema check of the generated Table::read.                    *)
(***************************************************************************)
\* the field count of the header of the table in the stream
HeaderFieldCount == 256 * stream[25] + stream[26]

\* the bytes of the string pool from the table name on
RECURSIVE UpToNul(_)
UpToNul(s) == IF s = <<>> \/ Head(s) = 0 THEN <<>> ELSE <<Head(s)>> \o UpToNul(Tail(s))
HeaderTableName ==
    UpToNul(SubSeqFrom(stream, 8 + from_be_bytes(Slice(stream, 12, 16))
                               + from_be_bytes(Slice(stream, 20, 24))))

SchemaDiffers ==
    \/ HeaderFieldCount # Len(aux.expected.columns)
    \/ HeaderTableName # aux.expected.table_name

\* the first column of the expected schema is not the first one stored
FirstColumnDiffers ==
    /\ aux.expected.columns # <<>>
    /\ aux.schema.columns # <<>>
    /\ aux.expected.columns[1] # aux.schema.columns[1]

\* C23: Table::read returns WrongTableSchema, and not the error of a column
\* read, whenever the field count of the header is not the number of columns
\* of the schema or the table name stored in the buffer is not the expected
\* table name.
C23_WrongTableSchema ==
    (pc = "table_read_as" /\ SchemaDiffers) => result = Err(<<"WrongTableSchema">>)

\* a table "Demo" was read as a table "Dem" with as many columns, the first
\* of them another one, and the read returned WrongTableSchema
C23_Witness ==
    /\ pc = "table_read_as"
    /\ HeaderFieldCount = Len(aux.expected.columns)
    /\ HeaderTableName = <<68, 101, 109, 111>>
    /\ aux.expected.table_name = OtherTableName
    /\ FirstColumnDiffers
    /\ result = Err(<<"WrongTableSchema">>)

\* a table was read with a schema of one column more
C23_WitnessCount ==
    /\ pc = "table_read_as"
    /\ HeaderFieldCount + 1 = Len(aux.expected.columns)
    /\ HeaderTableName = aux.expected.table_name
    /\ result = Err(<<"WrongTableSchema">>)

(***************************************************************************)
(* C24.  String references.                                                *)
(***************************************************************************)
\* offset off of the pool is 0 or follows a NUL, and the pool holds a NUL at
\* or after it
Resolves(pool, off) ==
    /\ off < Len(pool)
    /\ off = 0 \/ pool[off] = 0
    /\ \E j \in (off + 1)..Len(pool) : pool[j] = 0

\* the bytes from offset off up to the next NUL
TextAt(pool, off) == UpToNul(SubSeqFrom(pool, off))

\* every NUL-terminated string of the pool is UTF-8
PoolIsText ==
    \A off \in 0..Len(aux.pool) :
        Resolves(aux.pool, off) => 255 \notin {TextAt(aux.pool, off)[i] :
                                                  i \in DOMAIN TextAt(aux.pool, off)}

\* the reads of string references: a STR reference decodes exactly when its
\* offset is 0 or follows a NUL of the string pool and the string that starts
\* there is NUL-terminated inside the pool, and then yields the bytes up to
\* that NUL; any other offset (inside a string, past the end of the pool, at
\* trailing bytes without a NUL) yields DataNotFound
ReferenceDecodes ==
    pc = "string_read" =>
        result = IF Resolves(aux.pool, aux.ref)
                 THEN Ok(TV("STR", TextAt(aux.pool, aux.ref)))
                 ELSE Err(<<"DataNotFound">>)

\* C24 as the claim words it: string references decode as above, and
\* Reader::new fails with MalformedHeader whenever the table-name offset does
\* not resolve, so that table_name() of a constructed Reader is the string at
\* that offset.
C24_AsClaimed ==
    /\ ReferenceDecodes
    /\ pc = "new_done" =>
          /\ ~Resolves(aux.pool, aux.name) => result = Err(<<"MalformedHeader">>)
          /\ result.ok => table_name(reader) = TextAt(aux.pool, aux.name)

\* C24: string references decode as above.  Reader::new scans the string
\* pool before it looks up the table name: it fails with StringMalformed
\* when a NUL-terminated string of the pool is not UTF-8, whatever the
\* table-name offset is, and otherwise with MalformedHeader when the
\* table-name offset does not resolve; so table_name() of a constructed
\* Reader is the string at that offset and never panics.
C24_StringReference ==
    /\ ReferenceDecodes
    /\ pc = "new_done" =>
          /\ ~PoolIsText => result = Err(<<"StringMalformed">>)
          /\ (PoolIsText /\ ~Resolves(aux.pool, aux.name)) =>
                result = Err(<<"MalformedHeader">>)
          /\ (PoolIsText /\ Resolves(aux.pool, aux.name)) =>
                /\ result.ok
                /\ table_name(reader) = TextAt(aux.pool, aux.name)

\* the pool FF NUL: Reader::new refused the table for the string that is not
\* UTF-8, though the table-name offset 1 lies inside that string
C24_WitnessMalformedPool ==
    /\ pc = "new_done"
    /\ aux.pool = <<255, 0>>
    /\ aux.name = 1
    /\ ~Resolves(aux.pool, aux.name)
    /\ result = Err(<<"StringMalformed">>)

\* the pool "B" NUL "C" "C": a reference to the trailing bytes "CC", which no
\* NUL ends, was read and gave DataNotFound
C24_Witness ==
    /\ pc = "string_read"
    /\ aux.pool = <<66, 0, 67, 67>>
    /\ aux.ref = 2
    /\ result = Err(<<"DataNotFound">>)

\* a reference to the empty string that a second NUL makes was read
C24_WitnessEmpty ==
    /\ pc = "string_read"
    /\ aux.pool = <<66, 0, 0>>
    /\ aux.ref = 2
    /\ result = Ok(TV("STR", <<>>))

\* Reader::new refused a table whose name offset lies inside a string
C24_WitnessName ==
    /\ pc = "new_done"
    /\ aux.pool = <<66, 67, 0>>
    /\ aux.name = 1
    /\ result = Err(<<"MalformedHeader">>)

(***************************************************************************)
(* C25.  The bytes the cipher touches past the end of the buffer.          *)
(***************************************************************************)
\* the chunk width of the selected path
ChunkWidth == element_align(aux.feature)

\* the bytes of an allocation from index n on
BytesFrom(mem, n) == SubSeqFrom(mem, n)

\* the destination has gone through the cipher
Ciphered == pc \in {"encrypted", "decrypted", "encrypted_twice"}

\* C25: for a buffer whose length n is no multiple of the chunk width of
\* the selected path, the cipher writes no byte of the destination at an
\* index >= n: past the n bytes the destination allocation is as it was
\* allocated.
C25_TailUntouched ==
    (Ciphered /\ aux.len % ChunkWidth # 0) =>
        BytesFrom(aux.enc, aux.len) = BytesFrom(aligned_vec_full(aux.len, aux.fill), aux.len)

\* what the loop does: the last chunk is taken at full width, so that the
\* destination is written up to the next multiple of the chunk width with
\* the cipher of what the source allocation holds there
C25_TailWholeChunk ==
    Ciphered =>
        LET end == element_count(aux.len, ChunkWidth) * ChunkWidth
        IN  /\ end <= minimum_size(aux.len)
            /\ SubSeq(aux.enc, 1, end) = Reference(aux.src, end)
            /\ BytesFrom(aux.enc, end) = BytesFrom(aligned_vec_full(aux.len, aux.fill), end)

\* a buffer of 13 bytes has been encrypted on the 8-byte path, which wrote
\* the bytes 13, 14 and 15 of the destination
C25_Witness ==
    /\ pc = "encrypted"
    /\ aux.feature = "none"
    /\ aux.len = 13
    /\ \A k \in 14..16 : aux.enc[k] = BitXor(aux.src[k], DECRYPTION_MASK[k])
    /\ \A k \in 14..16 : aux.enc[k] # aligned_vec_full(aux.len, aux.fill)[k]

(***************************************************************************)
(* C26.  What the reads do to the two cursors.                             *)
(***************************************************************************)
RowedReads == {"read_rowed_column", "read_rowed_column_opt"}

\* the errors of the name, type and storage checks of a column read
DescriptorErrors ==
    {"WrongColumnName", "WrongColumnType", "InvalidColumnType",
     "WrongColumnStorage", "InvalidColumnStorage"}

\* the result is one of those errors
DescriptorRejected == ~result.ok /\ result.err[1] \in DescriptorErrors

\* the constant read found no value: storage Zero on an optional read
FoundZero == aux.op = "read_constant_column_opt" /\ result.ok /\ result.val = <<>>

\* what the two cursors moved by since Reader::new built the reader, with
\* both cursors at 0
ColumnMoved == reader.column_pos
RowMoved == reader.row_pos

\* C26: a successful read_rowed_column or read_rowed_column_opt, and a
\* read_constant_column_opt that finds Zero, moves the column cursor by
\* exactly 5; a successful constant read of a present value moves it by 5
\* plus the width of the value; none of them moves the row cursor;
\* read_value(row = true) moves only the row cursor; and a column read that
\* fails on the name, the type or the storage leaves the 5 descriptor bytes
\* consumed.
C26_Cursors ==
    pc = "read_done" =>
        /\ (aux.op \in RowedReads /\ result.ok) => ColumnMoved = 5
        /\ FoundZero => ColumnMoved = 5
        /\ (aux.op \in ConstantReads /\ result.ok /\ ~FoundZero) =>
              ColumnMoved = 5 + Width(PrimitiveOf(aux.kind))
        /\ aux.op \in RowedReads \cup ConstantReads => RowMoved = 0
        /\ (aux.op = "read_value" /\ aux.row) => ColumnMoved = 0
        /\ (aux.op = "read_value" /\ aux.row /\ result.ok) => RowMoved = Width(PrimitiveOf(aux.kind))
        /\ (aux.op \in RowedReads \cup ConstantReads /\ DescriptorRejected) =>
              ColumnMoved = 5

\* a rowed column read failed on the storage of a descriptor that is
\* followed by more bytes, and the cursor is behind the descriptor
C26_Witness ==
    /\ pc = "read_done"
    /\ aux.op = "read_rowed_column"
    /\ result = Err(<<"WrongColumnStorage", 48, "0x50">>)
    /\ Len(reader.column_buffer) = 13
    /\ reader.column_pos = 5
    /\ reader.row_pos = 0

\* a constant read of a present 2-byte value moved the column cursor by 7
C26_WitnessConstant ==
    /\ pc = "read_done"
    /\ aux.op = "read_constant_column"
    /\ aux.kind = "U16"
    /\ result.ok
    /\ reader.column_pos = 7
    /\ reader.row_pos = 0

\* a value read from the row buffer moved only the row cursor
C26_WitnessRow ==
    /\ pc = "read_done"
    /\ aux.op = "read_value" /\ aux.row
    /\ result.ok
    /\ reader.row_pos > 0
    /\ reader.column_pos = 0

(***************************************************************************)
(* C27.  The product of the row-area equation.                             *)
(***************************************************************************)
\* Reader::new got as far as the header test on a header whose product
\* row_size * row_count does not fit 32 bits
ProductTooWide ==
    /\ pc = "new_done"
    /\ aux.magic = <<64, 85, 84, 70>>
    /\ aux.len >= 32
    /\ aux.header.table_size >= 24
    /\ MulOverflows(aux.header.row_size, aux.header.row_count)

\* C27: Reader::new evaluates the row-area equation on exact integers: a
\* header whose product row_size * row_count is 2^32 or more is rejected
\* with MalformedHeader; the product neither wraps nor aborts the process.
C27_ExactProduct == ProductTooWide => result = Err(<<"MalformedHeader">>)

\* what the code does with such a header whose offsets are in order: with
\* overflow checks the multiplication panics, without them the product
\* wraps and the header is rejected only when the wrapped product differs
C27_WrappedProduct ==
    (/\ ProductTooWide
     /\ 24 <= aux.header.row_offset
     /\ aux.header.row_offset <= aux.header.string_offset
     /\ aux.header.string_offset <= aux.header.blob_offset
     /\ aux.header.blob_offset <= aux.header.table_size)
        => IF aux.overflow_checks
           THEN result = Err(<<"panic", "attempt to multiply with overflow">>)
           ELSE ~WrappedMulEquals(aux.header.row_size, aux.header.row_count,
                                  aux.header.string_offset - aux.header.row_offset)
                   => result = Err(<<"MalformedHeader">>)

\* a header with row_size 4 and row_count 2^30 and an empty row area was
\* accepted and the reader built
C27_WitnessWrapped ==
    /\ ProductTooWide
    /\ ~aux.overflow_checks
    /\ aux.header.row_size = 4
    /\ aux.header.string_offset = aux.header.row_offset
    /\ result.ok
    /\ Len(reader.row_buffer) = 0

(***************************************************************************)
(* C28.  What Reader::new takes from the stream.                           *)
(***************************************************************************)
\* the table_size field of the stream, when the stream has it
StreamTableSize == from_be_bytes(Slice(stream, 4, 8))

\* Reader::new runs on the stream
NewStep == pc = "new" /\ pc' = "new_done"

\* the regions in the order Reader::new reads them, with the offset in the
\* stream where each ends and the error context of its read
Regions(h) ==
    << [end |-> 8,                   context |-> "@UTF header"],
       [end |-> 32,                  context |-> "@UTF header"],
       [end |-> 8 + h.row_offset,    context |-> "UTF column data"],
       [end |-> 8 + h.string_offset, context |-> "UTF row data"],
       [end |-> 8 + h.blob_offset,   context |-> "UTF string data"],
       [end |-> 8 + h.table_size,    context |-> "UTF blob data"] >>

\* the first region that a stream of n bytes does not hold
FirstShort(h, n) ==
    CHOOSE i \in 1..6 :
        /\ Regions(h)[i].end > n
        /\ \A j \in 1..(i - 1) : Regions(h)[j].end <= n

\* C28: Reader::new reads, in this order, the primary header, the secondary
\* header, the column region, the row region, the string pool and the blob
\* pool.  When it succeeds it has consumed exactly 8 + table_size bytes and
\* the stream is left at the first byte after the table; when it fails it
\* has consumed at most 8 + table_size bytes; an EOF error, other than the
\* one for a table_size below 24, is that of the first region, in that
\* order, that the stream does not hold, and leaves the stream empty.
C28_Consumed ==
    [][NewStep =>
        /\ result'.ok =>
              /\ stream' = SubSeqFrom(stream, 8 + StreamTableSize)
              /\ Len(stream) - Len(stream') = 8 + StreamTableSize
              /\ reader'.column_buffer = Slice(stream, 32, 8 + aux.header.row_offset)
              /\ reader'.row_buffer =
                    Slice(stream, 8 + aux.header.row_offset, 8 + aux.header.string_offset)
              /\ reader'.blobs =
                    Slice(stream, 8 + aux.header.blob_offset, 8 + aux.header.table_size)
        /\ (~result'.ok /\ Len(stream) >= 8) =>
              Len(stream) - Len(stream') <= 8 + StreamTableSize
        /\ (~result'.ok /\ Len(stream) < 8) => stream' = <<>>
        /\ (/\ ~result'.ok
            /\ result'.err[1] = "EOF"
            /\ ~(Len(stream) >= 8 /\ StreamTableSize < 24)) =>
              /\ stream' = <<>>
              /\ result'.err = io(Regions(aux.header)[FirstShort(aux.header, Len(stream))].context).err
      ]_vars

\* a table of 28 bytes was read from a stream of 44 bytes, which is left
\* with the 8 bytes after the table
C28_Witness ==
    /\ pc = "new_done"
    /\ result.ok
    /\ aux.len = 44
    /\ aux.header.table_size = 28
    /\ stream = SubSeqFrom(HeaderBody, 4)

\* a stream that ends in the string pool failed on that region
C28_WitnessShort ==
    /\ pc = "new_done"
    /\ aux.len = 34
    /\ aux.header.string_offset = 24
    /\ aux.header.blob_offset = 28
    /\ result = io("UTF string data")
    /\ stream = <<>>

(***************************************************************************)
(* C29.  The guard and the magic.                                          *)
(***************************************************************************)
\* the payload of the stream starts with the guard 1F 9E F3 F5
GuardPassed == PayloadRead /\ Slice(aux.payload, 0, 4) = <<31, 158, 243, 245>>

\* decrypted_table_data as read_packet fills it from the payload
Decrypted ==
    decrypt(aux.feature,
            SubSeq(aux.payload, 1, Declared)
            \o SubSeqFrom(aligned_vec_full(Declared, aux.fill), Declared),
            Declared, aligned_vec_full(Declared, aux.fill))

\* what write_packet writes for the table of the payloads in a packet with
\* encryption enabled
WrittenEncrypted ==
    write_packet([ prefix |-> aux.prefix, encrypted |-> TRUE,
                   unknown_value |-> aux.unknown_value, table |-> PayloadTable ],
                 aux.schema, aux.feature, aux.fill, 64, FALSE, aux.overflow_checks)

\* C29: in read_packet, whenever the guard check passes, the first four
\* bytes of the decrypted payload are "@UTF", so that read_packet never
\* returns its final DecryptionError; and the payload that write_packet
\* produces with encryption enabled starts with the guard.
C29_GuardIsMagic ==
    /\ GuardPassed =>
          /\ Slice(Decrypted, 0, 4) = <<64, 85, 84, 70>>
          /\ result # Err(<<"DecryptionError">>)
    /\ WrittenEncrypted.res.ok
    /\ Slice(WrittenEncrypted.out, 16, 20) = <<31, 158, 243, 245>>

\* a payload with the guard and a changed byte behind it was decrypted and
\* refused by the table reader, not by read_packet
C29_Witness ==
    /\ GuardPassed
    /\ aux.payload = Corrupt(EncryptedPayload, 11)
    /\ aux.feature = "avx2"
    /\ Declared = Len(aux.payload)
    /\ ~result.ok
    /\ result # Err(<<"DecryptionError">>)
    /\ SubSeq(WrittenEncrypted.out, 17, Len(WrittenEncrypted.out)) = EncryptedPayload

(***************************************************************************)
(* C30.  field_count and the column buffer after failed pushes.            *)
(***************************************************************************)
\* the width of the value of a descriptor with this flag byte: that of its
\* type when the storage is Constant, none otherwise
ValueWidth(flag) ==
    IF (flag \div 16) * 16 = 48
    THEN SIZE_IN_UTF(CHOOSE kind \in ValueKind : TYPE_FLAG(kind) = flag % 16)
    ELSE 0

\* the number of column descriptors in a column buffer, a descriptor being
\* the flag byte, the name and the value if the flag says there is one; a
\* descriptor that the buffer ends in counts
RECURSIVE DescriptorCount(_)
DescriptorCount(column_data) ==
    IF column_data = <<>> THEN 0
    ELSE 1 + DescriptorCount(SubSeqFrom(column_data, 5 + ValueWidth(column_data[1])))

\* no push so far was given a value that does not convert
NoFailedPush ==
    \A i \in DOMAIN calls :
        LET tv == IF calls[i].op = "push_constant_column_opt"
                  THEN (IF calls[i].arg = <<>> THEN <<>> ELSE calls[i].arg[1])
                  ELSE calls[i].arg
        IN  ~(calls[i].op \in {"push_constant_column", "push_constant_column_opt"}
              /\ tv # <<>> /\ ~to_primitive(tv).ok)

\* without a failed push the two agree
C30_FieldCountNoFailure ==
    (pc = "ended" /\ NoFailedPush) =>
        HeaderFieldCount = DescriptorCount(writer.column_data)

\* C30: after any sequence of push_* calls, failed ones included, the
\* field_count that end emits is the number of column descriptors in the
\* column buffer.
C30_FieldCount ==
    pc = "ended" => HeaderFieldCount = DescriptorCount(writer.column_data)

\* the second half of C30: a push that fails with ValueConversion leaves
\* the column buffer and field_count as they were
C30_FailedPushKeepsWriter ==
    [][(pc' = "writing" /\ ~result'.ok /\ result'.err[1] = "ValueConversion") =>
          /\ writer'.column_data = writer.column_data
          /\ writer'.field_count = writer.field_count]_vars

\* what the code keeps: field_count is the number of pushes that returned
\* Ok, and a failed push has added the flag byte and the name of its
\* descriptor to the column buffer
C30_FieldCountOfSuccesses ==
    [][pc' = "writing" =>
          IF result'.ok
          THEN writer'.field_count = writer.field_count + 1
          ELSE /\ writer'.field_count = writer.field_count
               /\ Len(writer'.column_data) = Len(writer.column_data) + 5
               /\ SubSeq(writer'.column_data, 1, Len(writer.column_data))
                     = writer.column_data]_vars

\* a failed push was followed by end: the table has the 5 bytes of a
\* descriptor and a field_count of 0
C30_WitnessFailed ==
    /\ pc = "ended"
    /\ Len(calls) = 1
    /\ calls[1].arg = TV(CallerType, 200)
    /\ Len(writer.column_data) = 5
    /\ HeaderFieldCount = 0

(***************************************************************************)
(* C2.  Malformed headers.                                                 *)
(***************************************************************************)
\* row_size * row_count = d as integers (no wrap), d < 2^31
ExactMulEquals(row_size, row_count, d) ==
    /\ MulWide(row_size, row_count).hi = d \div 65536
    /\ MulWide(row_size, row_count).lo = d % 65536

HeaderViolated(h) ==
    \/ ~(24 <= h.row_offset /\ h.row_offset <= h.string_offset
         /\ h.string_offset <= h.blob_offset /\ h.blob_offset <= h.table_size)
    \/ ~ExactMulEquals(h.row_size, h.row_count, h.string_offset - h.row_offset)

\* C2: on a stream with the @UTF magic and 32 bytes of headers whose offsets
\* are out of order or whose row_size * row_count differs from
\* string_offset - row_offset, Reader::new returns MalformedHeader.
C2_MalformedHeader ==
    (/\ pc = "new_done"
     /\ aux.magic = <<64, 85, 84, 70>>
     /\ aux.len >= 32
     /\ HeaderViolated(aux.header))
        => result = Err(<<"MalformedHeader">>)

====
